---- MODULE Spec2Model ----
(***************************************************************************)
(* A model of the OxyPy interpreter: the parser (src/src/AstTree.rs) and   *)
(* the tree-walking evaluator (src/src/runtime.rs, src/src/Environment.rs, *)
(* src/src/Functions.rs), driven by the interactive prompt                 *)
(* (src/src/Repl.rs): every input is parsed and executed on one Runtime.   *)
(*                                                                         *)
(* The evaluator is recursive in the source, so it is recursive here: each *)
(* Rust method is one operator that takes the Runtime as a record `rt` and *)
(* returns the Runtime it leaves behind together with its result.  The     *)
(* methods that call each other are called by name, through the operators  *)
(* ASTParser and Runtime.  One action of the state machine is one turn of  *)
(* the prompt's loop.  The lexer (src/src/tokenizer.rs) and the parser     *)
(* are also run on their own, on the characters of a source file, the way  *)
(* src/src/main.rs runs them: `content` is the text and `parsed` what the  *)
(* two made of it.                                                         *)
(*                                                                         *)
(* Besides the fields of the Rust struct, `rt` carries                     *)
(*   stdout           what print/println wrote,                            *)
(*   panicked         the process aborted on a Rust panic,                 *)
(*   overflow_checks  the build profile (debug: arithmetic overflow        *)
(*                    panics; release: it wraps),                          *)
(*   trace            history: the events of the input being executed,     *)
(*                    which the properties below read,                     *)
(*   call, calls      history: the number of the call whose body is        *)
(*                    running (0 at top level) and of the calls begun,     *)
(*   registered       history: the classes that were registered when the   *)
(*                    calls now running were entered,                      *)
(*   exhausted        a loop was cut at MaxIterations (a bound of the      *)
(*                    model, not of the program).                          *)
(***************************************************************************)
EXTENDS Integers, Sequences, FiniteSets, TLC

VARIABLES runtime, inputs_read, content, parsed

vars == <<runtime, inputs_read, content, parsed>>

(***************************************************************************)
(* Bounds of the model.                                                    *)
(***************************************************************************)
MaxInputs == 3
MaxIterations == 6

(***************************************************************************)
(* tokenizer.rs: DataHolder, the tagged union of runtime values.  A value  *)
(* is [tag, v]; Option<DataHolder>::None is NoneV.                         *)
(***************************************************************************)
I32Max == 2147483647
I32Min == -2147483647 - 1

INTEGER32(n) == [tag |-> "INTEGER32", v |-> n]
INTEGER64(n) == [tag |-> "INTEGER64", v |-> n]
FLOAT32(n) == [tag |-> "FLOAT32", v |-> n]
FLOAT64(n) == [tag |-> "FLOAT64", v |-> n]
BOOLEAN_(b) == [tag |-> "BOOLEAN", v |-> b]
STRING_(s) == [tag |-> "STRING", v |-> s]
LIST(l) == [tag |-> "LIST", v |-> l]
CLASSINSTANCE(class_name, fields) ==
    [tag |-> "CLASSINSTANCE", v |-> [class_name |-> class_name, fields |-> fields]]
NoneV == [tag |-> "None", v |-> 0]

IsSome(o) == o.tag # "None"

EmptyMap == [x \in {} |-> NoneV]

Put(m, k, val) == [x \in (DOMAIN m) \cup {k} |-> IF x = k THEN val ELSE m[x]]

Has(m, k) == k \in DOMAIN m

Get(m, k) == IF k \in DOMAIN m THEN m[k] ELSE NoneV

(***************************************************************************)
(* i32 arithmetic as rustc compiles it: `+ - *` panic on overflow when     *)
(* overflow checks are on and wrap otherwise; `/` and `%` panic on         *)
(* i32::MIN / -1 in every build.  An outcome is [ok, v]: ok = FALSE is the *)
(* panic.  The sums are arranged so that no intermediate leaves 32 bits.   *)
(***************************************************************************)
WrapAdd(a, b) ==
    IF a >= 0 /\ b >= 0 /\ a > I32Max - b
    THEN (a + I32Min) + (b + I32Min)
    ELSE IF a < 0 /\ b < 0 /\ a < I32Min - b
         THEN (a - I32Min) + (b - I32Min)
         ELSE a + b

AddOverflows(a, b) ==
    \/ a >= 0 /\ b >= 0 /\ a > I32Max - b
    \/ a < 0 /\ b < 0 /\ a < I32Min - b

WrapNeg(a) == IF a = I32Min THEN I32Min ELSE 0 - a

WrapSub(a, b) ==
    IF b = I32Min THEN WrapAdd(a, I32Min) ELSE WrapAdd(a, 0 - b)

SubOverflows(a, b) ==
    IF b = I32Min THEN a >= 0 ELSE AddOverflows(a, 0 - b)

\* a * b modulo 2^32, four bits of b at a time (b \div 16 rounds down, so a
\* negative b ends at -1, and a * (-1) is the wrapped negation).
SmallMul(a, k) ==
    LET a2 == WrapAdd(a, a)
        a4 == WrapAdd(a2, a2)
        a8 == WrapAdd(a4, a4)
    IN  WrapAdd(WrapAdd(IF k % 2 = 1 THEN a ELSE 0,
                        IF (k \div 2) % 2 = 1 THEN a2 ELSE 0),
                WrapAdd(IF (k \div 4) % 2 = 1 THEN a4 ELSE 0,
                        IF (k \div 8) % 2 = 1 THEN a8 ELSE 0))

Shl4(a) == SmallMul(WrapAdd(a, a), 8)

RECURSIVE WrapMul(_, _)
WrapMul(a, b) ==
    IF a = 0 \/ b = 0 THEN 0
    ELSE IF b = -1 THEN WrapNeg(a)
    ELSE WrapAdd(SmallMul(a, b % 16), WrapMul(Shl4(a), b \div 16))

\* Rust's `/` truncates toward zero and `%` takes the sign of the dividend.
\* Not defined for b = 0 nor for i32::MIN / -1, which the callers exclude.
TruncDivPos(a, b) ==
    LET q == a \div b
    IN  IF a < 0 /\ a % b # 0 THEN q + 1 ELSE q

TruncDiv(a, b) ==
    IF b > 0 THEN TruncDivPos(a, b)
    ELSE IF b = I32Min THEN (IF a = I32Min THEN 1 ELSE 0)
    ELSE 0 - TruncDivPos(a, 0 - b)

TruncRem(a, b) == a - TruncDiv(a, b) * b

DivOverflows(a, b) == a = I32Min /\ b = -1

Abs(a) == IF a < 0 THEN 0 - a ELSE a

\* The exact product leaves i32: |a| * |b| > 2^31 - 1, except for the product
\* -2^31 itself.
MulOverflows(a, b) ==
    IF a = 0 \/ b = 0 THEN FALSE
    ELSE IF a = I32Min THEN b # 1
    ELSE IF b = I32Min THEN a # 1
    ELSE IF Abs(a) <= I32Max \div Abs(b) THEN FALSE
    ELSE ~(/\ (a < 0) # (b < 0)
            /\ Abs(a) - 1 = I32Max \div Abs(b)
            /\ I32Max % Abs(b) = Abs(b) - 1)

(***************************************************************************)
(* AstTree.rs: the AST.  A node is a record with a `kind`.                 *)
(***************************************************************************)
VariableDeclaration(name, data_type, value) ==
    [kind |-> "VariableDeclaration", name |-> name, data_type |-> data_type, value |-> value]
FunctionDeclaration(name, params, body) ==
    [kind |-> "FunctionDeclaration", name |-> name, params |-> params, body |-> body]
Conditional(condition, then_branch, else_branch) ==
    [kind |-> "Conditional", condition |-> condition, then_branch |-> then_branch,
     else_branch |-> else_branch]
ForLoop(variable, start, end, step, body) ==
    [kind |-> "ForLoop", variable |-> variable, start |-> start, end |-> end,
     step |-> step, body |-> body]
WhileLoop(condition, body) == [kind |-> "WhileLoop", condition |-> condition, body |-> body]
Block(statements) == [kind |-> "Block", statements |-> statements]
Assignment(name, value) == [kind |-> "Assignment", name |-> name, value |-> value]
MemberAssignment(object, member, value) ==
    [kind |-> "MemberAssignment", object |-> object, member |-> member, value |-> value]
ExpressionStatement(expression) == [kind |-> "ExpressionStatement", expression |-> expression]
Return(value) == [kind |-> "Return", value |-> value]
ClassMeta(name, fields) == [kind |-> "ClassMeta", name |-> name, fields |-> fields]
ClassAttribute(name, data_type) ==
    [kind |-> "ClassAttribute", name |-> name, data_type |-> data_type]
FunctionParameter(name, data_type) == [name |-> name, data_type |-> data_type]

\* Option<AstExpressions>::None and Option<Vec<Statement>>::None.
NoExpr == [kind |-> "NoExpr"]
NoBranch == [some |-> FALSE, statements |-> <<>>]
SomeBranch(statements) == [some |-> TRUE, statements |-> statements]

BinaryOperation(left, operator, right) ==
    [kind |-> "BinaryOperation", left |-> left, operator |-> operator, right |-> right]
UnaryOperation(operator, operand) ==
    [kind |-> "UnaryOperation", operator |-> operator, operand |-> operand]
ComparisonOperation(left, operator, right) ==
    [kind |-> "ComparisonOperation", left |-> left, operator |-> operator, right |-> right]
LogicalOperation(left, operator, right) ==
    [kind |-> "LogicalOperation", left |-> left, operator |-> operator, right |-> right]
Value(value) == [kind |-> "Value", value |-> value]
Variable(name) == [kind |-> "Variable", name |-> name]
Literal(value) == [kind |-> "Literal", value |-> value]
ListLiteral(elements) == [kind |-> "ListLiteral", elements |-> elements]
FunctionCall(name, arguments) ==
    [kind |-> "FunctionCall", name |-> name, arguments |-> arguments]
MemberAccess(object, member) == [kind |-> "MemberAccess", object |-> object, member |-> member]
MethodCall(object, method, arguments) ==
    [kind |-> "MethodCall", object |-> object, method |-> method, arguments |-> arguments]
Grouping(expression) == [kind |-> "Grouping", expression |-> expression]

(***************************************************************************)
(* Environment.rs: the variable bindings and the class definitions live in *)
(* one struct.                                                             *)
(***************************************************************************)
Environment_new == [variables |-> EmptyMap, classes |-> EmptyMap]

set_variable(env, name, value) == [env EXCEPT !.variables = Put(@, name, value)]

get_variable(env, name) == Get(env.variables, name)

set_class(env, name, fields) == [env EXCEPT !.classes = Put(@, name, fields)]

get_class(env, name) == Get(env.classes, name)

is_class_meta_exists(env, name) == Has(env.classes, name)

(***************************************************************************)
(* runtime.rs: struct Runtime and Runtime::new.                            *)
(***************************************************************************)
Runtime_new(checks) ==
    [environment |-> Environment_new,
     functions |-> EmptyMap,
     returning |-> FALSE,
     return_value |-> NoneV,
     method_context |-> NoneV,
     stdout |-> "",
     panicked |-> FALSE,
     overflow_checks |-> checks,
     exhausted |-> FALSE,
     trace |-> <<>>,
     call |-> 0,
     calls |-> 0,
     registered |-> {}]

UserFunction(name, params, body, is_method) ==
    [name |-> name, params |-> params, body |-> body, is_method |-> is_method]

\* The process is gone (a panic), or the model stopped following it.
Dead(rt) == rt.panicked \/ rt.exhausted

Panic(rt) == [rt EXCEPT !.panicked = TRUE]

Log(rt, event) == [rt EXCEPT !.trace = Append(@, event)]

Write(rt, text) == [rt EXCEPT !.stdout = @ \o text]

\* What a call may not change for its caller (history, read by the properties).
Frame(rt) ==
    [variables |-> rt.environment.variables,
     returning |-> rt.returning,
     return_value |-> rt.return_value,
     method_context |-> rt.method_context]

(***************************************************************************)
(* runtime.rs: the pure helpers of the evaluator.  A float payload is a    *)
(* whole number: the lexer emits no float literal and no built-in returns  *)
(* a float, so the floats a program can hold are the 0.0 of a declared     *)
(* f32/f64 attribute and what arithmetic makes of it (the sign of zero is  *)
(* not kept).  An i64 payload is kept exact within the range of TLC's      *)
(* integers.                                                               *)
(***************************************************************************)
PanicV == [tag |-> "Panic", v |-> 0]

get_default_value(data_type) ==
    CASE data_type = "INTEGER32" -> INTEGER32(0)
      [] data_type = "INTEGER64" -> INTEGER64(0)
      [] data_type = "FLOAT32" -> FLOAT32(0)
      [] data_type = "FLOAT64" -> FLOAT64(0)
      [] data_type = "BOOLEAN" -> BOOLEAN_(FALSE)
      [] data_type = "STRING" -> STRING_("")
      [] data_type = "LIST" -> LIST(<<>>)
      [] OTHER -> INTEGER32(0)

I32Add(a, b, checks) ==
    IF AddOverflows(a, b)
    THEN (IF checks THEN PanicV ELSE INTEGER32(WrapAdd(a, b)))
    ELSE INTEGER32(a + b)

I32Sub(a, b, checks) ==
    IF SubOverflows(a, b)
    THEN (IF checks THEN PanicV ELSE INTEGER32(WrapSub(a, b)))
    ELSE INTEGER32(a - b)

I32Mul(a, b, checks) ==
    IF MulOverflows(a, b)
    THEN (IF checks THEN PanicV ELSE INTEGER32(WrapMul(a, b)))
    ELSE INTEGER32(a * b)

\* A division whose zero divisor yields 0.
I32Div_zero_divisor(a, b) ==
    IF b = 0 THEN INTEGER32(0)
    ELSE IF DivOverflows(a, b) THEN PanicV
    ELSE INTEGER32(TruncDiv(a, b))

I32Div(a, b) ==
    IF b = 0 THEN NoneV
    ELSE IF DivOverflows(a, b) THEN PanicV
    ELSE INTEGER32(TruncDiv(a, b))

I32Rem(a, b) ==
    IF b = 0 THEN NoneV
    ELSE IF DivOverflows(a, b) THEN PanicV
    ELSE INTEGER32(TruncRem(a, b))

I32Neg(a, checks) ==
    IF a = I32Min
    THEN (IF checks THEN PanicV ELSE INTEGER32(I32Min))
    ELSE INTEGER32(0 - a)

IsFloat(x) == x.tag \in {"FLOAT32", "FLOAT64"}

SameTag(left, right, tag) == left.tag = tag /\ right.tag = tag

perform_arithmetic_operation(left, operator, right, checks) ==
    LET a == left.v
        b == right.v
    IN  CASE operator = "Add" ->
               (CASE SameTag(left, right, "INTEGER32") -> I32Add(a, b, checks)
                  [] SameTag(left, right, "INTEGER64") -> INTEGER64(a + b)
                  [] SameTag(left, right, "FLOAT32") -> FLOAT32(a + b)
                  [] SameTag(left, right, "FLOAT64") -> FLOAT64(a + b)
                  [] SameTag(left, right, "STRING") -> STRING_(a \o b)
                  [] OTHER -> NoneV)
          [] operator = "Subtract" ->
               (CASE SameTag(left, right, "INTEGER32") -> I32Sub(a, b, checks)
                  [] SameTag(left, right, "INTEGER64") -> INTEGER64(a - b)
                  [] SameTag(left, right, "FLOAT32") -> FLOAT32(a - b)
                  [] SameTag(left, right, "FLOAT64") -> FLOAT64(a - b)
                  [] OTHER -> NoneV)
          [] operator = "Multiply" ->
               (CASE SameTag(left, right, "INTEGER32") -> I32Mul(a, b, checks)
                  [] SameTag(left, right, "INTEGER64") -> INTEGER64(a * b)
                  [] SameTag(left, right, "FLOAT32") -> FLOAT32(a * b)
                  [] SameTag(left, right, "FLOAT64") -> FLOAT64(a * b)
                  [] OTHER -> NoneV)
          [] operator = "Divide" ->
               (CASE SameTag(left, right, "INTEGER32") -> I32Div(a, b)
                  [] SameTag(left, right, "INTEGER64") ->
                       (IF b = 0 THEN NoneV ELSE INTEGER64(TruncDiv(a, b)))
                  [] SameTag(left, right, "FLOAT32") ->
                       (IF b = 0 THEN NoneV ELSE FLOAT32(TruncDiv(a, b)))
                  [] SameTag(left, right, "FLOAT64") ->
                       (IF b = 0 THEN NoneV ELSE FLOAT64(TruncDiv(a, b)))
                  [] OTHER -> NoneV)
          [] operator = "Modulo" ->
               (CASE SameTag(left, right, "INTEGER32") -> I32Rem(a, b)
                  [] SameTag(left, right, "INTEGER64") ->
                       (IF b = 0 THEN NoneV ELSE INTEGER64(TruncRem(a, b)))
                  [] OTHER -> NoneV)
          [] OTHER -> NoneV

perform_unary_operation(operator, operand, checks) ==
    CASE operator = "Subtract" ->
           (CASE operand.tag = "INTEGER32" -> I32Neg(operand.v, checks)
              [] operand.tag = "INTEGER64" -> INTEGER64(0 - operand.v)
              [] operand.tag = "FLOAT32" -> FLOAT32(0 - operand.v)
              [] operand.tag = "FLOAT64" -> FLOAT64(0 - operand.v)
              [] OTHER -> NoneV)
      [] operator = "Add" -> operand
      [] operator = "Not" ->
           (CASE operand.tag = "BOOLEAN" -> BOOLEAN_(~operand.v)
              [] operand.tag \in {"INTEGER32", "INTEGER64"} -> BOOLEAN_(operand.v = 0)
              [] OTHER -> NoneV)
      [] OTHER -> NoneV

Numeric == {"INTEGER32", "INTEGER64", "FLOAT32", "FLOAT64"}

\* An Equal that yields no value for operands of different types.
compare_Equal_same_type(left, right) ==
    IF left.tag = right.tag /\ left.tag \in Numeric \cup {"STRING", "BOOLEAN"}
    THEN BOOLEAN_(left.v = right.v)
    ELSE IF left.tag = right.tag THEN BOOLEAN_(FALSE)
    ELSE NoneV

compare_Equal(left, right) ==
    IF left.tag = right.tag /\ left.tag \in Numeric \cup {"STRING", "BOOLEAN"}
    THEN BOOLEAN_(left.v = right.v)
    ELSE BOOLEAN_(FALSE)

compare_Greater(left, right) ==
    IF left.tag = right.tag /\ left.tag \in Numeric
    THEN BOOLEAN_(left.v > right.v)
    ELSE NoneV

compare_Less(left, right) ==
    IF left.tag = right.tag /\ left.tag \in Numeric
    THEN BOOLEAN_(left.v < right.v)
    ELSE NoneV

Negated(result) == IF result.tag = "BOOLEAN" THEN BOOLEAN_(~result.v) ELSE NoneV

perform_comparison_operation(left, operator, right) ==
    CASE operator = "Equal" -> compare_Equal(left, right)
      [] operator = "NotEqual" -> Negated(compare_Equal(left, right))
      [] operator = "Greater" -> compare_Greater(left, right)
      [] operator = "Less" -> compare_Less(left, right)
      [] operator = "GreaterEqual" -> Negated(compare_Less(left, right))
      [] operator = "LessEqual" -> Negated(compare_Greater(left, right))

\* A coercion that counts every value without an arm of its own as true.
Truthy_other_true(value) ==
    CASE value.tag = "BOOLEAN" -> value.v
      [] value.tag \in Numeric -> value.v # 0
      [] value.tag = "STRING" -> value.v # ""
      [] value.tag = "LIST" -> value.v # <<>>
      [] OTHER -> TRUE

\* The coercion of a condition in Conditional and in WhileLoop.
Truthy(value) ==
    CASE value.tag = "BOOLEAN" -> value.v
      [] value.tag \in Numeric -> value.v # 0
      [] value.tag = "STRING" -> value.v # ""
      [] value.tag = "LIST" -> value.v # <<>>
      [] OTHER -> FALSE

(***************************************************************************)
(* Functions.rs: the built-in functions.                                   *)
(***************************************************************************)
BuiltInNames == {"print", "println", "len", "current_time", "to_string", "parse_int"}

\* `{}` of a scalar.  A class instance is printed with `{:?}`, whose field
\* order is the HashMap's; only its class name is rendered here.
Scalar(x) ==
    CASE x.tag \in Numeric -> ToString(x.v)
      [] x.tag = "STRING" -> x.v
      [] x.tag = "BOOLEAN" -> (IF x.v THEN "true" ELSE "false")
      [] x.tag = "CLASSINSTANCE" -> "CLASSINSTANCE(" \o x.v.class_name \o ")"
      [] OTHER -> "?"

ListItem(x) == IF x.tag = "STRING" THEN "\"" \o x.v \o "\"" ELSE Scalar(x)

RECURSIVE JoinItems(_, _)
JoinItems(list, j) ==
    IF j > Len(list) THEN ""
    ELSE (IF j > 1 THEN ", " ELSE "") \o ListItem(list[j]) \o JoinItems(list, j + 1)

Formatted(x) == IF x.tag = "LIST" THEN "[" \o JoinItems(x.v, 1) \o "]" ELSE Scalar(x)

RECURSIVE print_text(_, _)
print_text(args, i) ==
    IF i > Len(args) THEN ""
    ELSE (IF i > 1 THEN " " ELSE "") \o Formatted(args[i]) \o print_text(args, i + 1)

len_fn(args) ==
    IF Len(args) # 1 THEN NoneV
    ELSE IF args[1].tag \in {"STRING", "LIST"} THEN INTEGER32(Len(args[1].v))
    ELSE NoneV

to_string_fn(args) ==
    IF Len(args) # 1 THEN NoneV
    ELSE IF args[1].tag \in Numeric \cup {"BOOLEAN", "STRING"} THEN STRING_(Scalar(args[1]))
    ELSE NoneV

\* str::parse::<i32> on the decimal numerals of -MaxParsed..MaxParsed; every
\* other text a program of the model holds is no numeral.
MaxParsed == 20

parse_int_fn(args) ==
    IF Len(args) # 1 THEN NoneV
    ELSE IF args[1].tag = "STRING"
         THEN (IF \E n \in (0 - MaxParsed)..MaxParsed : ToString(n) = args[1].v
               THEN INTEGER32(CHOOSE n \in (0 - MaxParsed)..MaxParsed : ToString(n) = args[1].v)
               ELSE NoneV)
    ELSE IF args[1].tag \in Numeric THEN INTEGER32(args[1].v)
    ELSE NoneV

\* The second the clock shows when current_time() is called.
EpochSeconds == 1793602800

\* BuiltInFunction::call: the value, and what it wrote to stdout.
call_builtin(name, args) ==
    CASE name = "print" -> [val |-> INTEGER32(0), text |-> print_text(args, 1)]
      [] name = "println" -> [val |-> INTEGER32(0), text |-> print_text(args, 1) \o "\n"]
      [] name = "len" -> [val |-> len_fn(args), text |-> ""]
      [] name = "current_time" -> [val |-> INTEGER64(EpochSeconds), text |-> ""]
      [] name = "to_string" -> [val |-> to_string_fn(args), text |-> ""]
      [] name = "parse_int" -> [val |-> parse_int_fn(args), text |-> ""]
      [] OTHER -> [val |-> NoneV, text |-> ""]

(***************************************************************************)
(* tokenizer.rs: the tokens.  A token is its variant name and its payload  *)
(* (0 for a variant that carries none).                                    *)
(***************************************************************************)
Token(t) == [t |-> t, v |-> 0]
IDENTIFIER(name) == [t |-> "IDENTIFIER", v |-> name]
TYPE(data_type) == [t |-> "TYPE", v |-> data_type]
VALUE(value) == [t |-> "VALUE", v |-> value]

(***************************************************************************)
(* tokenizer.rs: the lexer.  A content is the sequence of its characters,  *)
(* each a one-character string; the word being collected is a sequence of  *)
(* characters too.                                                         *)
(***************************************************************************)
Digits == <<"0", "1", "2", "3", "4", "5", "6", "7", "8", "9">>

IsDigit(char) == \E d \in DOMAIN Digits : Digits[d] = char

DigitValue(char) == (CHOOSE d \in DOMAIN Digits : Digits[d] = char) - 1

RECURSIVE Text(_)
Text(word) == IF word = <<>> THEN "" ELSE Head(word) \o Text(Tail(word))

\* str::parse::<i32> of a word of digits: the number, or -1 past i32::MAX.
RECURSIVE ParseDigits(_, _)
ParseDigits(word, value) ==
    IF word = <<>> THEN value
    ELSE IF value > (I32Max - DigitValue(Head(word))) \div 10 THEN -1
    ELSE ParseDigits(Tail(word), 10 * value + DigitValue(Head(word)))

RECURSIVE SkipZeros(_)
SkipZeros(word) ==
    IF word # <<>> /\ Head(word) = "0" THEN SkipZeros(Tail(word)) ELSE word

I64MaxDigits ==
    <<"9", "2", "2", "3", "3", "7", "2", "0", "3", "6", "8", "5", "4", "7", "7", "5", "8",
      "0", "7">>

\* The digits a (without leading zeros) are a number up to the digits b.
RECURSIVE DigitsAtMost(_, _)
DigitsAtMost(a, b) ==
    IF Len(a) # Len(b) THEN Len(a) < Len(b)
    ELSE IF a = <<>> THEN TRUE
    ELSE IF Head(a) # Head(b) THEN DigitValue(Head(a)) < DigitValue(Head(b))
    ELSE DigitsAtMost(Tail(a), Tail(b))

\* The lexer hands no sign and no '.' to a word ('+', '-' and '.' are tokens
\* of their own), so a word is a number when all of it is digits; the
\* payload of an i64 literal is past TLC's integers and is kept as digits.
\* `word.contains('.')` and the word is digits about one point: what
\* parse::<f32> takes of the words made of digits and points.
IsDecimal(word) ==
    /\ Cardinality({i \in DOMAIN word : word[i] = "."}) = 1
    /\ \E i \in DOMAIN word : IsDigit(word[i])
    /\ \A i \in DOMAIN word : IsDigit(word[i]) \/ word[i] = "."

\* try_parse_number.  A float literal, which no word of process_content can
\* be, is kept as its text.
try_parse_number(word) ==
    IF IsDecimal(word) THEN FLOAT32(Text(word))
    ELSE IF word = <<>> \/ \E i \in DOMAIN word : ~IsDigit(word[i]) THEN NoneV
    ELSE IF ParseDigits(word, 0) >= 0 THEN INTEGER32(ParseDigits(word, 0))
    ELSE IF DigitsAtMost(SkipZeros(word), I64MaxDigits) THEN INTEGER64(SkipZeros(word))
    ELSE NoneV

Keywords ==
    [let |-> "LET", for |-> "FOR", in |-> "IN", if |-> "IF", else |-> "ELSE", or |-> "OR",
     and |-> "AND", not |-> "NOT", fn |-> "FN", return |-> "RETURN", while |-> "WHILE",
     class |-> "CLASS", public |-> "PUBLIC", self |-> "SELF"]

TypeNames ==
    [i32 |-> "INTEGER32", i64 |-> "INTEGER64", f32 |-> "FLOAT32", f64 |-> "FLOAT64",
     bool |-> "BOOLEAN", string |-> "STRING"]

classify_token(word) ==
    LET text == Text(word)
    IN  IF text \in DOMAIN Keywords THEN Token(Keywords[text])
        ELSE IF text \in DOMAIN TypeNames THEN TYPE(TypeNames[text])
        ELSE IF text \in {"true", "false"} THEN VALUE(BOOLEAN_(text = "true"))
        ELSE IF IsSome(try_parse_number(word)) THEN VALUE(try_parse_number(word))
        ELSE IDENTIFIER(text)

\* Punctuation in which a point is a character of a word.
Punctuation_without_point ==
    [c \in {"+", "-", "*", "/", "(", ")", ":", "[", ",", "]", "{", "}", ">", "<", "%"} |->
        CASE c = "+" -> "PLUS" [] c = "-" -> "MINUS" [] c = "*" -> "STAR"
          [] c = "/" -> "SLASH" [] c = "(" -> "LPAREN" [] c = ")" -> "RPAREN"
          [] c = ":" -> "COLON" [] c = "[" -> "LSQRBRAC" [] c = "," -> "COMMA"
          [] c = "]" -> "RSQRBRAC" [] c = "{" -> "LBRACE" [] c = "}" -> "RBRACE"
          [] c = ">" -> "GREATER" [] c = "<" -> "LESS" [] c = "%" -> "MODULO"]

\* The characters that are a token each.
Punctuation ==
    [c \in {"+", "-", "*", "/", "(", ")", ":", "[", ",", "]", "{", "}", ">", "<", "%", "."} |->
        CASE c = "+" -> "PLUS" [] c = "-" -> "MINUS" [] c = "*" -> "STAR"
          [] c = "/" -> "SLASH" [] c = "(" -> "LPAREN" [] c = ")" -> "RPAREN"
          [] c = ":" -> "COLON" [] c = "[" -> "LSQRBRAC" [] c = "," -> "COMMA"
          [] c = "]" -> "RSQRBRAC" [] c = "{" -> "LBRACE" [] c = "}" -> "RBRACE"
          [] c = ">" -> "GREATER" [] c = "<" -> "LESS" [] c = "%" -> "MODULO"
          [] c = "." -> "DOT"]

\* `if !token.is_empty() { tokens.push(classify_token(&token)) }`.
Flush(tokens, token) ==
    IF token = <<>> THEN tokens ELSE Append(tokens, classify_token(token))

\* A '=' that is a token of its own whatever precedes it.
push_equals_plain(tokens) == Append(tokens, Token("EQUALS"))

\* The '=' that no '=' follows: it joins a NOT, LESS or GREATER before it.
push_equals(tokens) ==
    LET last == IF tokens = <<>> THEN "None" ELSE tokens[Len(tokens)].t
        front == SubSeq(tokens, 1, Len(tokens) - 1)
    IN  CASE last = "NOT" -> Append(front, Token("NOT_EQUALS"))
          [] last = "LESS" -> Append(front, Token("LESS_EQUALS"))
          [] last = "GREATER" -> Append(front, Token("GREATER_EQUALS"))
          [] OTHER -> Append(tokens, Token("EQUALS"))

\* The inside of a string literal, from character i to the closing quote
\* or to the end of the content.
RECURSIVE scan_string(_, _, _, _, _)
scan_string(chars, i, quote, string_content, escaped) ==
    IF i > Len(chars) THEN [string_content |-> string_content, next |-> i]
    ELSE IF escaped
    THEN scan_string(chars, i + 1, quote,
                     string_content \o
                         (CASE chars[i] = "n" -> "\n" [] chars[i] = "t" -> "\t"
                            [] chars[i] = "r" -> "\r"
                            [] chars[i] \in {"\\", "\"", "'"} -> chars[i]
                            [] OTHER -> "\\" \o chars[i]),
                     FALSE)
    ELSE IF chars[i] = "\\" THEN scan_string(chars, i + 1, quote, string_content, TRUE)
    ELSE IF chars[i] = quote THEN [string_content |-> string_content, next |-> i + 1]
    ELSE scan_string(chars, i + 1, quote, string_content \o chars[i], FALSE)

\* The loop of process_content from character i on.
RECURSIVE process_chars(_, _, _, _)
process_chars(chars, i, tokens, token) ==
    IF i > Len(chars) THEN Flush(tokens, token)
    ELSE LET char == chars[i]
             flushed == Flush(tokens, token)
             peek == IF i < Len(chars) THEN chars[i + 1] ELSE ""
             string == scan_string(chars, i + 1, char, "", FALSE)
         IN  CASE char \in {" ", "\t", "\n", "\r"} -> process_chars(chars, i + 1, flushed, <<>>)
               [] char \in {"\"", "'"} ->
                    process_chars(chars, string.next,
                                  Append(flushed, VALUE(STRING_(string.string_content))), <<>>)
               [] char \in DOMAIN Punctuation ->
                    process_chars(chars, i + 1, Append(flushed, Token(Punctuation[char])),
                                  <<>>)
               [] char = "=" ->
                    (IF peek = "="
                     THEN process_chars(chars, i + 2,
                                        Append(flushed, Token("EQUALS_EQUALS")), <<>>)
                     ELSE process_chars(chars, i + 1, push_equals(flushed), <<>>))
               [] char = "!" ->
                    (IF peek = "="
                     THEN process_chars(chars, i + 2, Append(flushed, Token("NOT_EQUALS")),
                                        <<>>)
                     ELSE process_chars(chars, i + 1, Append(flushed, Token("NOT")), <<>>))
               [] OTHER -> process_chars(chars, i + 1, tokens, Append(token, char))

process_content(chars) == process_chars(chars, 1, <<>>, <<>>)

(***************************************************************************)
(* AstTree.rs: TokenCursor.  A production returns Option<T> and leaves the *)
(* cursor where it stopped, also when it fails: Some(val, c) and None(c).  *)
(***************************************************************************)
TokenCursor_new(tokens) == [tokens |-> tokens, position |-> 0]

current_token(c) ==
    IF c.position < Len(c.tokens) THEN c.tokens[c.position + 1] ELSE Token("None")

consume_token(c) ==
    IF c.position < Len(c.tokens) THEN [c EXCEPT !.position = @ + 1] ELSE c

is_at_end(c) == c.position >= Len(c.tokens)

\* The test of match_token: the current token has the variant `t`.
Is(c, t) == current_token(c).t = t

Some(val, c) == [ok |-> TRUE, val |-> val, c |-> c]
None(c) == [ok |-> FALSE, val |-> 0, c |-> c]

\* The methods of ASTParser call each other in a circle: a call of one of
\* them is written ASTParser("method", <<arguments>>), and ASTParser is
\* defined below the last of them.
RECURSIVE ASTParser(_, _)

\* A run of expect_token(..)? calls: the cursor stops at the first mismatch.
RECURSIVE expect_tokens(_, _)
expect_tokens(c, expected) ==
    IF expected = <<>> THEN Some(0, c)
    ELSE IF Is(c, Head(expected)) THEN expect_tokens(consume_token(c), Tail(expected))
    ELSE None(c)


\* A loop body that leaves the cursor where a failed production stopped.
parse_iteration_no_skip(statements, c) ==
    LET statement == ASTParser("parse_statement", <<c>>)
    IN  IF statement.ok THEN Some(Append(statements, statement.val), statement.c)
        ELSE Some(statements, statement.c)

\* One iteration of the loop of `parse` and of parse_block_body:
\* `if let Some(statement) = self.parse_statement(cursor) { push } else
\* { cursor.consume_token() }`.
parse_iteration(statements, c) ==
    LET statement == ASTParser("parse_statement", <<c>>)
    IN  IF statement.ok THEN Some(Append(statements, statement.val), statement.c)
        ELSE Some(statements, consume_token(statement.c))

\* The loop of `parse` (in_block = FALSE) and of parse_block_body (TRUE).
parse_statements(statements, c, in_block) ==
    IF is_at_end(c) \/ (in_block /\ Is(c, "RBRACE")) THEN Some(statements, c)
    ELSE LET iterated == parse_iteration(statements, c)
         IN  ASTParser("parse_statements", <<iterated.val, iterated.c, in_block>>)

parse(tokens) == ASTParser("parse_statements", <<<<>>, TokenCursor_new(tokens), FALSE>>).val

parse_block_body(c) == ASTParser("parse_statements", <<<<>>, c, TRUE>>)

parse_expression(c) == ASTParser("parse_logical_or", <<c>>)

\* `{ body }` as the function, method, branch and loop productions read it.
parse_braced_body(c) ==
    LET body == ASTParser("parse_statements", <<<<>>, consume_token(c), TRUE>>)
    IN  IF ~Is(c, "LBRACE") THEN None(c)
        ELSE IF body.ok /\ Is(body.c, "RBRACE") THEN Some(body.val, consume_token(body.c))
        ELSE None(body.c)

parse_function_parameters_loop(params, c) ==
    LET tok == current_token(c)
        c1 == consume_token(c)
        param_name == IF tok.t = "SELF" THEN "self" ELSE tok.v
        is_self == param_name = "self"
        ty == current_token(consume_token(c1))
        c3 == IF is_self THEN c1 ELSE consume_token(consume_token(c1))
        pushed == Append(params, FunctionParameter(param_name,
                             IF is_self THEN "STRING" ELSE ty.v))
    IN  IF tok.t \notin {"IDENTIFIER", "SELF"} THEN None(c1)
        ELSE IF ~is_self /\ ~Is(c1, "COLON") THEN None(c1)
        ELSE IF ~is_self /\ ty.t # "TYPE" THEN None(c3)
        ELSE IF Is(c3, "COMMA") THEN ASTParser("parse_function_parameters_loop", <<pushed, consume_token(c3)>>)
        ELSE Some(pushed, c3)

parse_function_parameters(c) ==
    IF Is(c, "RPAREN") THEN Some(<<>>, c)
    ELSE ASTParser("parse_function_parameters_loop", <<<<>>, c>>)

\* `name ( params ) { body }`, the part function and method declarations share.
parse_function_signature_and_body(c) ==
    LET name == current_token(c)
        c1 == consume_token(c)
        params == parse_function_parameters(consume_token(c1))
        body == parse_braced_body(consume_token(params.c))
    IN  IF name.t # "IDENTIFIER" \/ ~Is(c1, "LPAREN") THEN None(c1)
        ELSE IF ~params.ok \/ ~Is(params.c, "RPAREN") THEN None(params.c)
        ELSE IF body.ok THEN Some(FunctionDeclaration(name.v, params.val, body.val), body.c)
        ELSE body

parse_function_declaration(c) == parse_function_signature_and_body(consume_token(c))

parse_return_statement(c) ==
    LET value == ASTParser("parse_logical_or", <<consume_token(c)>>)
    IN  IF current_token(consume_token(c)).t \in {"RBRACE", "LET", "IF", "FOR", "None"}
        THEN Some(Return(NoExpr), consume_token(c))
        ELSE IF value.ok THEN Some(Return(value.val), value.c)
        ELSE value

parse_class_attributes(fields, c) ==
    LET field_name == current_token(c)
        c1 == consume_token(c)
        field_type == current_token(consume_token(c1))
        c3 == consume_token(consume_token(c1))
    IN  IF field_name.t \in {"RBRACE", "None"} THEN Some(fields, c)
        ELSE IF field_name.t # "IDENTIFIER" \/ ~Is(c1, "COLON") THEN None(c1)
        ELSE IF field_type.t # "TYPE" THEN None(c3)
        ELSE ASTParser("parse_class_attributes", <<
                 Put(fields, field_name.v, ClassAttribute(field_name.v, field_type.v)), c3>>)

parse_class_methods(fields, c) ==
    LET method == parse_function_signature_and_body(consume_token(c))
    IN  IF current_token(c).t \in {"RBRACE", "None"} THEN Some(fields, c)
        ELSE IF ~Is(c, "FN") THEN None(c)
        ELSE IF method.ok
             THEN ASTParser("parse_class_methods", <<Put(fields, method.val.name, method.val), method.c>>)
        ELSE method

parse_class_declaration(c) ==
    LET class_name == current_token(consume_token(c))
        c2 == consume_token(consume_token(c))
        opened == expect_tokens(c2, <<"LBRACE", "PUBLIC", "LBRACE">>)
        attributes == ASTParser("parse_class_attributes", <<EmptyMap, opened.c>>)
        c3 == consume_token(attributes.c)
        has_methods == Is(c3, "PUBLIC")
        methods == IF ~has_methods THEN Some(attributes.val, c3)
                   ELSE IF ~Is(consume_token(c3), "LBRACE") THEN None(consume_token(c3))
                   ELSE ASTParser("parse_class_methods", <<attributes.val, consume_token(consume_token(c3))>>)
        closed == IF has_methods THEN expect_tokens(methods.c, <<"RBRACE", "RBRACE">>)
                  ELSE expect_tokens(methods.c, <<"RBRACE">>)
    IN  IF class_name.t # "IDENTIFIER" THEN None(c2)
        ELSE IF ~opened.ok THEN None(opened.c)
        ELSE IF ~attributes.ok \/ ~Is(attributes.c, "RBRACE") THEN None(attributes.c)
        ELSE IF ~methods.ok THEN None(methods.c)
        ELSE IF ~closed.ok THEN None(closed.c)
        ELSE Some(ClassMeta(class_name.v, methods.val), closed.c)

parse_variable_declaration(c) ==
    LET name == current_token(consume_token(c))
        c2 == consume_token(consume_token(c))
        typed == Is(c2, "COLON")
        ty == current_token(consume_token(c2))
        c4 == IF typed THEN consume_token(consume_token(c2)) ELSE c2
        value_expr == ASTParser("parse_logical_or", <<consume_token(c4)>>)
    IN  IF name.t # "IDENTIFIER" THEN None(c2)
        ELSE IF (typed /\ ty.t # "TYPE") \/ ~Is(c4, "EQUALS") THEN None(c4)
        ELSE IF value_expr.ok
             THEN Some(VariableDeclaration(name.v, IF typed THEN ty.v ELSE "STRING",
                                           value_expr.val), value_expr.c)
        ELSE value_expr

\* `( condition ) { body }`, the part `if` and `while` share.
parse_condition_and_body(c) ==
    LET condition == ASTParser("parse_logical_or", <<consume_token(c)>>)
        body == parse_braced_body(consume_token(condition.c))
    IN  IF ~Is(c, "LPAREN") THEN None(c)
        ELSE IF ~condition.ok \/ ~Is(condition.c, "RPAREN") THEN None(condition.c)
        ELSE IF body.ok THEN Some([condition |-> condition.val, body |-> body.val], body.c)
        ELSE body

parse_conditional_statement(c) ==
    LET head == parse_condition_and_body(consume_token(c))
        else_statements == parse_braced_body(consume_token(head.c))
    IN  IF ~head.ok THEN head
        ELSE IF ~Is(head.c, "ELSE")
             THEN Some(Conditional(head.val.condition, head.val.body, NoBranch), head.c)
        ELSE IF else_statements.ok
             THEN Some(Conditional(head.val.condition, head.val.body,
                                   SomeBranch(else_statements.val)), else_statements.c)
        ELSE else_statements

parse_while_loop(c) ==
    LET head == parse_condition_and_body(consume_token(c))
    IN  IF head.ok THEN Some(WhileLoop(head.val.condition, head.val.body), head.c)
        ELSE head

parse_for_loop(c) ==
    LET variable == current_token(consume_token(c))
        c2 == consume_token(consume_token(c))
        opened == expect_tokens(c2, <<"IN", "DOT", "SLASH", "LSQRBRAC">>)
        start == ASTParser("parse_logical_or", <<opened.c>>)
        end == ASTParser("parse_logical_or", <<consume_token(start.c)>>)
        step == ASTParser("parse_logical_or", <<consume_token(end.c)>>)
        body == parse_braced_body(consume_token(step.c))
    IN  IF variable.t # "IDENTIFIER" THEN None(c2)
        ELSE IF ~opened.ok THEN None(opened.c)
        ELSE IF ~start.ok \/ ~Is(start.c, "COMMA") THEN None(start.c)
        ELSE IF ~end.ok \/ ~Is(end.c, "COMMA") THEN None(end.c)
        ELSE IF ~step.ok \/ ~Is(step.c, "RSQRBRAC") THEN None(step.c)
        ELSE IF body.ok
             THEN Some(ForLoop(variable.v, start.val, end.val, step.val, body.val), body.c)
        ELSE body

parse_assignment_or_expression(c) ==
    LET expr == ASTParser("parse_logical_or", <<c>>)
        value == ASTParser("parse_logical_or", <<consume_token(expr.c)>>)
        name == current_token(c)
        c1 == consume_token(c)
        retried == ASTParser("parse_logical_or", <<consume_token(c1)>>)
    IN  IF expr.ok
        THEN IF ~Is(expr.c, "EQUALS") THEN Some(ExpressionStatement(expr.val), expr.c)
             ELSE IF ~value.ok THEN value
             ELSE IF expr.val.kind = "MemberAccess"
                  THEN Some(MemberAssignment(expr.val.object, expr.val.member, value.val),
                            value.c)
             ELSE IF expr.val.kind = "Variable"
                  THEN Some(Assignment(expr.val.name, value.val), value.c)
             ELSE None(value.c)
        ELSE IF name.t # "IDENTIFIER" THEN None(c1)
        ELSE IF ~Is(c1, "EQUALS") THEN expr
        ELSE IF retried.ok THEN Some(Assignment(name.v, retried.val), retried.c)
        ELSE retried

parse_block_statement(c) ==
    LET statements == parse_braced_body(c)
    IN  IF statements.ok THEN Some(Block(statements.val), statements.c)
        ELSE statements

\* A dispatcher with an arm for a statement that begins with `self`.
parse_statement_with_self(c) ==
    CASE Is(c, "LET") -> parse_variable_declaration(c)
      [] Is(c, "IF") -> parse_conditional_statement(c)
      [] Is(c, "FOR") -> parse_for_loop(c)
      [] Is(c, "FN") -> parse_function_declaration(c)
      [] Is(c, "RETURN") -> parse_return_statement(c)
      [] Is(c, "IDENTIFIER") \/ Is(c, "SELF") -> parse_assignment_or_expression(c)
      [] Is(c, "LBRACE") -> parse_block_statement(c)
      [] Is(c, "WHILE") -> parse_while_loop(c)
      [] Is(c, "CLASS") -> parse_class_declaration(c)
      [] OTHER -> None(c)

parse_statement(c) ==
    CASE Is(c, "LET") -> parse_variable_declaration(c)
      [] Is(c, "IF") -> parse_conditional_statement(c)
      [] Is(c, "FOR") -> parse_for_loop(c)
      [] Is(c, "FN") -> parse_function_declaration(c)
      [] Is(c, "RETURN") -> parse_return_statement(c)
      [] Is(c, "IDENTIFIER") -> parse_assignment_or_expression(c)
      [] Is(c, "LBRACE") -> parse_block_statement(c)
      [] Is(c, "WHILE") -> parse_while_loop(c)
      [] Is(c, "CLASS") -> parse_class_declaration(c)
      [] OTHER -> None(c)

match_comparison_operator(c) ==
    CASE Is(c, "EQUALS_EQUALS") -> "Equal"
      [] Is(c, "NOT_EQUALS") -> "NotEqual"
      [] Is(c, "GREATER") -> "Greater"
      [] Is(c, "LESS") -> "Less"
      [] Is(c, "GREATER_EQUALS") -> "GreaterEqual"
      [] Is(c, "LESS_EQUALS") -> "LessEqual"
      [] OTHER -> "None"

match_arithmetic_operator(c, allowed_tokens) ==
    LET t == current_token(c).t
    IN  IF t \notin allowed_tokens THEN "None"
        ELSE CASE t = "PLUS" -> "Add"
               [] t = "MINUS" -> "Subtract"
               [] t = "STAR" -> "Multiply"
               [] t = "SLASH" -> "Divide"
               [] t = "MODULO" -> "Modulo"
               [] OTHER -> "None"

match_unary_operator(c) == match_arithmetic_operator(c, {"MINUS", "PLUS"})

parse_function_arguments(c) ==
    IF Is(c, "RPAREN") THEN Some(<<>>, c) ELSE ASTParser("parse_expression_list", <<<<>>, c>>)

parse_primary(c) ==
    LET tok == current_token(c)
        c1 == consume_token(c)
        expr == ASTParser("parse_logical_or", <<c1>>)
        elements == IF Is(c1, "RSQRBRAC") THEN Some(<<>>, c1)
                    ELSE ASTParser("parse_expression_list", <<<<>>, c1>>)
    IN  CASE tok.t = "VALUE" -> Some(Value(tok.v), c1)
          [] tok.t = "IDENTIFIER" -> ASTParser("parse_member_access_or_call", <<Variable(tok.v), c1>>)
          [] tok.t = "SELF" -> ASTParser("parse_member_access_or_call", <<Variable("self"), c1>>)
          [] tok.t = "LPAREN" ->
               IF expr.ok /\ Is(expr.c, "RPAREN")
               THEN Some(Grouping(expr.val), consume_token(expr.c))
               ELSE None(expr.c)
          [] tok.t = "LSQRBRAC" ->
               IF elements.ok /\ Is(elements.c, "RSQRBRAC")
               THEN Some(ListLiteral(elements.val), consume_token(elements.c))
               ELSE None(elements.c)
          [] OTHER -> None(c)

parse_unary(c) ==
    LET operator == match_unary_operator(c)
        operand == ASTParser("parse_unary", <<consume_token(c)>>)
    IN  IF operator = "None" THEN parse_primary(c)
        ELSE IF operand.ok THEN Some(UnaryOperation(operator, operand.val), operand.c)
        ELSE operand

parse_factor_loop(left, c) ==
    LET operator == match_arithmetic_operator(c, {"STAR", "SLASH", "MODULO"})
        right == ASTParser("parse_unary", <<consume_token(c)>>)
    IN  IF operator = "None" THEN Some(left, c)
        ELSE IF right.ok
             THEN ASTParser("parse_factor_loop", <<BinaryOperation(left, operator, right.val), right.c>>)
        ELSE right

parse_factor(c) ==
    LET left == ASTParser("parse_unary", <<c>>)
    IN  IF left.ok THEN ASTParser("parse_factor_loop", <<left.val, left.c>>) ELSE left

\* A parse_term whose right operand is a parse_unary: `+` and `-` bind as
\* tightly as `*`.
parse_term_loop_flat(left, c) ==
    LET operator == match_arithmetic_operator(c, {"PLUS", "MINUS"})
        right == ASTParser("parse_unary", <<consume_token(c)>>)
    IN  IF operator = "None" THEN Some(left, c)
        ELSE IF right.ok
             THEN ASTParser("parse_term_loop", <<BinaryOperation(left, operator, right.val), right.c>>)
        ELSE right

parse_term_loop(left, c) ==
    LET operator == match_arithmetic_operator(c, {"PLUS", "MINUS"})
        right == parse_factor(consume_token(c))
    IN  IF operator = "None" THEN Some(left, c)
        ELSE IF right.ok
             THEN ASTParser("parse_term_loop", <<BinaryOperation(left, operator, right.val), right.c>>)
        ELSE right

parse_term(c) ==
    LET left == parse_factor(c)
    IN  IF left.ok THEN ASTParser("parse_term_loop", <<left.val, left.c>>) ELSE left

parse_comparison(c) == parse_term(c)

parse_equality_loop(left, c) ==
    LET operator == match_comparison_operator(c)
        right == parse_term(consume_token(c))
    IN  IF operator = "None" THEN Some(left, c)
        ELSE IF right.ok
             THEN ASTParser("parse_equality_loop", <<ComparisonOperation(left, operator, right.val), right.c>>)
        ELSE right

\* parse_comparison is parse_term.
parse_equality(c) ==
    LET left == parse_term(c)
    IN  IF left.ok THEN ASTParser("parse_equality_loop", <<left.val, left.c>>) ELSE left

parse_logical_and_loop(left, c) ==
    LET right == parse_equality(consume_token(c))
    IN  IF ~Is(c, "AND") THEN Some(left, c)
        ELSE IF right.ok
             THEN ASTParser("parse_logical_and_loop", <<LogicalOperation(left, "And", right.val), right.c>>)
        ELSE right

parse_logical_and(c) ==
    LET left == parse_equality(c)
    IN  IF left.ok THEN ASTParser("parse_logical_and_loop", <<left.val, left.c>>) ELSE left

parse_logical_or_loop(left, c) ==
    LET right == parse_logical_and(consume_token(c))
    IN  IF ~Is(c, "OR") THEN Some(left, c)
        ELSE IF right.ok
             THEN ASTParser("parse_logical_or_loop", <<LogicalOperation(left, "Or", right.val), right.c>>)
        ELSE right

\* parse_expression is parse_logical_or.
parse_logical_or(c) ==
    LET left == parse_logical_and(c)
    IN  IF left.ok THEN ASTParser("parse_logical_or_loop", <<left.val, left.c>>) ELSE left

\* The loop of parse_function_arguments and of the ListLiteral production.
parse_expression_list(elements, c) ==
    LET element == ASTParser("parse_logical_or", <<c>>)
    IN  IF ~element.ok THEN element
        ELSE IF Is(element.c, "COMMA")
             THEN ASTParser("parse_expression_list", <<Append(elements, element.val), consume_token(element.c)>>)
        ELSE Some(Append(elements, element.val), element.c)

parse_member_access_or_call(expr, c) ==
    LET member_name == current_token(consume_token(c))
        c2 == consume_token(consume_token(c))
        is_dot == Is(c, "DOT")
        is_call == IF is_dot THEN Is(c2, "LPAREN") ELSE Is(c, "LPAREN")
        arguments == parse_function_arguments(consume_token(IF is_dot THEN c2 ELSE c))
        closed == arguments.ok /\ Is(arguments.c, "RPAREN")
    IN  IF is_dot /\ member_name.t # "IDENTIFIER" THEN None(c2)
        ELSE IF is_dot /\ ~is_call
             THEN ASTParser("parse_member_access_or_call", <<MemberAccess(expr, member_name.v), c2>>)
        ELSE IF ~is_call THEN Some(expr, c)
        ELSE IF ~closed THEN None(arguments.c)
        ELSE IF is_dot
             THEN ASTParser("parse_member_access_or_call", <<MethodCall(expr, member_name.v, arguments.val),
                                              consume_token(arguments.c)>>)
        ELSE IF expr.kind = "Variable"
             THEN ASTParser("parse_member_access_or_call", <<FunctionCall(expr.name, arguments.val),
                                              consume_token(arguments.c)>>)
        ELSE None(consume_token(arguments.c))

\* impl ASTParser: the call of a method by its name.
ASTParser(method, args) ==
    CASE method = "parse_statement" -> parse_statement(args[1])
      [] method = "parse_statements" -> parse_statements(args[1], args[2], args[3])
      [] method = "parse_logical_or" -> parse_logical_or(args[1])
      [] method = "parse_function_parameters_loop" -> parse_function_parameters_loop(args[1], args[2])
      [] method = "parse_class_attributes" -> parse_class_attributes(args[1], args[2])
      [] method = "parse_class_methods" -> parse_class_methods(args[1], args[2])
      [] method = "parse_logical_or_loop" -> parse_logical_or_loop(args[1], args[2])
      [] method = "parse_logical_and_loop" -> parse_logical_and_loop(args[1], args[2])
      [] method = "parse_equality_loop" -> parse_equality_loop(args[1], args[2])
      [] method = "parse_term_loop" -> parse_term_loop(args[1], args[2])
      [] method = "parse_factor_loop" -> parse_factor_loop(args[1], args[2])
      [] method = "parse_unary" -> parse_unary(args[1])
      [] method = "parse_member_access_or_call" -> parse_member_access_or_call(args[1], args[2])
      [] method = "parse_expression_list" -> parse_expression_list(args[1], args[2])

(***************************************************************************)
(* runtime.rs: the evaluator.  evaluate_expression and the calls return    *)
(* Val(value or NoneV, rt); execute_statement returns Res(result, rt) with *)
(* result the variant of ExecutionResult, "Return" or "Continue".          *)
(***************************************************************************)
Val(val, rt) == [val |-> val, rt |-> rt]
Res(result, rt) == [result |-> result, rt |-> rt]

MethodContext(instance) == [tag |-> "MethodContext", instance |-> instance]

\* Option::unwrap_or(DataHolder::INTEGER32(0)).
\* An unwrap that keeps a missing value missing.
unwrap_or_nothing(value) == value

unwrap_or_zero(value) == IF IsSome(value) THEN value ELSE INTEGER32(0)

\* The arithmetic helpers yield PanicV where the Rust operator panics.
Checked(value, rt, operator, operands) ==
    IF value.tag = "Panic"
    THEN Val(NoneV, Panic(Log(rt, [e |-> "abort", call |-> rt.call,
                                   operator |-> operator, operands |-> operands])))
    ELSE Val(value, rt)

\* A guard that lets every statement through.
ReturnPending_never(rt) == FALSE

\* The guard at the top of execute_statement.
ReturnPending(rt) == rt.returning

\* A statement list that ignores what its statements result in.
IsReturn_never(result) == FALSE

\* `matches!(result, ExecutionResult::Return(_))` after each statement of a
\* statement list.
IsReturn(result) == result.result = "Return"

\* A LogicalOperation that always evaluates its right operand.
ShortCircuits_never(operator, left_val) == FALSE

\* The left operand alone decides the LogicalOperation.
ShortCircuits(operator, left_val) ==
    /\ left_val.tag = "BOOLEAN"
    /\ \/ operator = "And" /\ left_val.v = FALSE
       \/ operator = "Or" /\ left_val.v = TRUE

\* The loop condition of ForLoop.
ForLoopContinues(current, end, step) ==
    (step > 0 /\ current < end) \/ (step < 0 /\ current > end)

\* `current += step` on an i32.
ForLoopNext(current, step, checks) == I32Add(current, step, checks)

non_self_params(params) == SelectSeq(params, LAMBDA param : param.name # "self")

\* An arity check that lets every call through.
ArityMatches_always(args, params) == TRUE

\* `args.len() != non_self_params.len()` is the failure of a call.
ArityMatches(args, params) == Len(args) = Len(params)

\* `for (param, arg) in non_self_params.iter().zip(args.iter())`.
RECURSIVE bind_params(_, _, _, _)
bind_params(env, params, args, i) ==
    IF i > Len(params) \/ i > Len(args) THEN env
    ELSE bind_params(set_variable(env, params[i].name, args[i]), params, args, i + 1)

\* An Environment::new() into which nothing is copied.
snapshot_env_empty(rt) == Environment_new

\* Environment::new() with every variable of the running environment copied.
snapshot_env(rt) == [Environment_new EXCEPT !.variables = rt.environment.variables]

\* call_function and call_method, entering the body: the new environment
\* goes in and the return state is reset.
enter_frame(rt, env) ==
    [rt EXCEPT !.environment = env, !.returning = FALSE, !.return_value = NoneV]

\* A call_function that leaves the body's environment in place.
restore_function_frame_keeps_environment(done, rt) ==
    [done EXCEPT !.returning = rt.returning, !.return_value = rt.return_value]

\* A call_function that brings the function registry of the caller back.
restore_function_frame_with_registry(done, rt) ==
    [done EXCEPT !.environment = rt.environment,
                 !.returning = rt.returning,
                 !.return_value = rt.return_value,
                 !.functions = rt.functions]

\* call_function, leaving the body: the saved state comes back.
restore_function_frame(done, rt) ==
    [done EXCEPT !.environment = rt.environment,
                 !.returning = rt.returning,
                 !.return_value = rt.return_value]

\* A call_method that leaves the method context of the callee in place.
restore_method_frame_keeps_context(done, rt) ==
    [done EXCEPT !.environment = rt.environment,
                 !.returning = rt.returning,
                 !.return_value = rt.return_value]

\* A call_method that leaves the body's environment in place.
restore_method_frame_keeps_environment(done, rt) ==
    [done EXCEPT !.returning = rt.returning,
                 !.return_value = rt.return_value,
                 !.method_context = rt.method_context]

\* call_method, leaving the body.
restore_method_frame(done, rt) ==
    [done EXCEPT !.environment = rt.environment,
                 !.returning = rt.returning,
                 !.return_value = rt.return_value,
                 !.method_context = rt.method_context]

\* History of a call: its number, the classes registered when it began.
BeginCall(rt, entered, kind, name, params, args) ==
    Log([entered EXCEPT !.calls = rt.calls + 1,
                        !.call = rt.calls + 1,
                        !.registered = rt.registered \cup DOMAIN rt.environment.classes],
        [e |-> "enter", call |-> rt.calls + 1, kind |-> kind, name |-> name,
         params |-> params, args |-> args, caller |-> rt.environment.variables,
         variables |-> entered.environment.variables])

EndCall(rt, done, restored, kind, name, value) ==
    Log([restored EXCEPT !.call = rt.call, !.registered = rt.registered],
        [e |-> "exit", call |-> done.call, kind |-> kind, name |-> name, value |-> value,
         before |-> Frame(rt), inside |-> done.environment.variables,
         returned |-> done.returning,
         declared |-> done.functions, functions |-> restored.functions,
         after |-> Frame(restored)])

ArityFailure(rt, after, kind, name) ==
    Log(after, [e |-> "arity", call |-> rt.call, kind |-> kind, name |-> name,
                before |-> Frame(rt), after |-> Frame(after)])

execute_builtin_function(rt, func_name, args) ==
    LET called == call_builtin(func_name, args)
    IN  Val(called.val, Write(rt, called.text))

\* The methods of Runtime call each other in a circle: a call of one of them
\* is written Runtime("method", <<arguments>>), and Runtime is defined below
\* the last of them.
RECURSIVE Runtime(_, _)

\* A statement list that is a scope: the names bound in it are dropped at
\* its end.
run_statements_scoped(rt, statements, i) ==
    IF i > Len(statements) \/ Dead(rt) THEN Res("Continue", rt)
    ELSE LET result == Runtime("execute_statement", <<rt, statements[i]>>)
             rest == IF IsReturn(result) THEN result
                     ELSE Runtime("run_statements", <<result.rt, statements, i + 1>>)
             outer == DOMAIN rt.environment.variables
         IN  Res(rest.result,
                 [rest.rt EXCEPT !.environment.variables =
                      [name \in DOMAIN @ \cap outer |-> @[name]]])

\* `for stmt in statements { result = execute_statement(stmt); if Return, stop }`,
\* the loop of Conditional, Block, the loop bodies and the two call bodies.
run_statements(rt, statements, i) ==
    IF i > Len(statements) \/ Dead(rt) THEN Res("Continue", rt)
    ELSE LET result == Runtime("execute_statement", <<rt, statements[i]>>)
         IN  IF IsReturn(result) THEN result
             ELSE Runtime("run_statements", <<result.rt, statements, i + 1>>)

\* The arguments of a call and the elements of a ListLiteral, left to right,
\* stopping at the first that yields no value: Val(NoneV, _) then.
evaluate_arguments(rt, arguments, i, evaluated) ==
    IF i > Len(arguments) THEN Val(LIST(evaluated), rt)
    ELSE LET arg == Runtime("evaluate_expression", <<rt, arguments[i]>>)
         IN  IF ~IsSome(arg.val) THEN arg
             ELSE Runtime("evaluate_arguments", <<arg.rt, arguments, i + 1, Append(evaluated, arg.val)>>)

\* History of a FunctionCall: what answered it (the class registry, the user
\* functions or the built-in registry) and what the name was known as.
Resolved(rt, result, name, via) ==
    IF Dead(result.rt) THEN result
    ELSE Val(result.val,
             Log(result.rt, [e |-> "resolved", call |-> rt.call, name |-> name, via |-> via,
                             is_class |-> is_class_meta_exists(rt.environment, name),
                             is_function |-> Has(rt.functions, name),
                             is_builtin |-> name \in BuiltInNames,
                             value |-> result.val,
                             written |-> result.rt.stdout # rt.stdout]))

\* call_function, the arm of a name that `self.functions` holds.
call_user_function(rt, func_name, args) ==
    LET function == Get(rt.functions, func_name)
        params == non_self_params(function.params)
    IN  IF ~ArityMatches(args, params)
        THEN Val(NoneV, ArityFailure(rt, rt, "function", func_name))
        ELSE LET function_env == bind_params(snapshot_env(rt), params, args, 1)
                 entered == BeginCall(rt, enter_frame(rt, function_env),
                                      "function", func_name, params, args)
                 done == Runtime("run_statements", <<entered, function.body, 1>>).rt
                 return_val == unwrap_or_zero(done.return_value)
             IN  IF Dead(done) THEN Val(NoneV, done)
                 ELSE Val(return_val,
                          EndCall(rt, done, restore_function_frame(done, rt),
                                  "function", func_name, return_val))

\* A call_function that asks the built-in registry first.
call_function_builtin_first(rt, func_name, args) ==
    IF func_name \in BuiltInNames \/ ~Has(rt.functions, func_name)
    THEN Resolved(rt, execute_builtin_function(rt, func_name, args), func_name, "builtin")
    ELSE Resolved(rt, call_user_function(rt, func_name, args), func_name, "function")

call_function(rt, func_name, args) ==
    IF ~Has(rt.functions, func_name)
    THEN Resolved(rt, execute_builtin_function(rt, func_name, args), func_name, "builtin")
    ELSE Resolved(rt, call_user_function(rt, func_name, args), func_name, "function")

call_method(rt, class_name, method_name, instance, args) ==
    LET class_def == get_class(rt.environment, class_name)
        class_found == is_class_meta_exists(rt.environment, class_name)
        found == /\ class_found
                 /\ Has(class_def.fields, method_name)
                 /\ Get(class_def.fields, method_name).kind = "FunctionDeclaration"
        logged == Log(rt, [e |-> "dispatch", call |-> rt.call, class_name |-> class_name,
                           method |-> method_name, class_found |-> class_found,
                           found |-> found,
                           registered |-> class_name \in rt.registered])
    IN  IF ~found THEN Val(NoneV, logged)
        ELSE LET method == Get(class_def.fields, method_name)
                 params == non_self_params(method.params)
                 in_context == [logged EXCEPT !.method_context = MethodContext(instance)]
                 self_env == set_variable(snapshot_env(logged), "self", instance)
             IN  IF ~ArityMatches(args, params)
                 THEN Val(NoneV, ArityFailure(logged,
                              [in_context EXCEPT !.method_context = logged.method_context],
                              "method", method_name))
                 ELSE LET method_env == bind_params(self_env, params, args, 1)
                          entered == BeginCall(logged, enter_frame(in_context, method_env),
                                               "method", method_name, params, args)
                          done == Runtime("run_statements", <<entered, method.body, 1>>).rt
                          return_val == unwrap_or_zero(done.return_value)
                      IN  IF Dead(done) THEN Val(NoneV, done)
                          ELSE Val(return_val,
                                   EndCall(logged, done, restore_method_frame(done, logged),
                                           "method", method_name, return_val))

\* A field map that holds the integer 0 whatever the declared type.
instance_fields_zeroed(fields) ==
    [field_name \in {n \in DOMAIN fields : fields[n].kind = "ClassAttribute"} |->
        INTEGER32(0)]

\* The field map of a new instance: the default of every ClassAttribute member.
instance_fields(fields) ==
    [field_name \in {n \in DOMAIN fields : fields[n].kind = "ClassAttribute"} |->
        get_default_value(fields[field_name].data_type)]

create_class_instance(rt, class_name, arguments) ==
    LET class_def == get_class(rt.environment, class_name)
    IN  IF ~is_class_meta_exists(rt.environment, class_name) THEN Val(NoneV, rt)
        ELSE LET instance == CLASSINSTANCE(class_def.name, instance_fields(class_def.fields))
                 args == Runtime("evaluate_arguments", <<rt, arguments, 1, <<>>>>)
                 constructed == [e |-> "construct", call |-> rt.call,
                                 class_name |-> class_name, instance |-> instance,
                                 methods |-> {n \in DOMAIN class_def.fields :
                                     class_def.fields[n].kind = "FunctionDeclaration"}]
             IN  IF ~Has(class_def.fields, "__init__") THEN Val(instance, Log(rt, constructed))
                 ELSE IF ~IsSome(args.val) THEN args
                 ELSE LET init == Runtime("call_method", <<args.rt, class_name, "__init__", instance,
                                              args.val.v>>)
                      IN  IF Dead(init.rt) THEN Val(NoneV, init.rt)
                          ELSE Val(instance, Log(init.rt, constructed))

evaluate_expression(rt, expr) ==
    CASE expr.kind = "Value" -> Val(expr.value, rt)
      [] expr.kind = "Variable" ->
           IF expr.name = "self" /\ IsSome(rt.method_context)
           THEN Val(rt.method_context.instance, rt)
           ELSE Val(get_variable(rt.environment, expr.name), rt)
      [] expr.kind = "Literal" -> Val(STRING_(expr.value), rt)
      [] expr.kind \in {"BinaryOperation", "ComparisonOperation"} ->
           (LET left_val == Runtime("evaluate_expression", <<rt, expr.left>>)
            IN  IF ~IsSome(left_val.val) THEN left_val
                ELSE LET right_val == Runtime("evaluate_expression", <<left_val.rt, expr.right>>)
                     IN  IF ~IsSome(right_val.val) THEN right_val
                         ELSE IF expr.kind = "BinaryOperation"
                              THEN Checked(perform_arithmetic_operation(left_val.val,
                                               expr.operator, right_val.val,
                                               rt.overflow_checks), right_val.rt,
                                           expr.operator, <<left_val.val, right_val.val>>)
                              ELSE Val(perform_comparison_operation(left_val.val,
                                           expr.operator, right_val.val), right_val.rt))
      [] expr.kind = "UnaryOperation" ->
           (LET operand_val == Runtime("evaluate_expression", <<rt, expr.operand>>)
            IN  IF ~IsSome(operand_val.val) THEN operand_val
                ELSE Checked(perform_unary_operation(expr.operator, operand_val.val,
                                                     rt.overflow_checks), operand_val.rt,
                             expr.operator, <<operand_val.val>>))
      [] expr.kind = "LogicalOperation" ->
           (LET left_val == Runtime("evaluate_expression", <<rt, expr.left>>)
                right_val == Runtime("evaluate_expression", <<left_val.rt, expr.right>>)
                short == ShortCircuits(expr.operator, left_val.val)
                end == IF short THEN left_val.rt ELSE right_val.rt
                result == IF short THEN BOOLEAN_(expr.operator = "Or")
                          ELSE IF ~IsSome(right_val.val) THEN NoneV
                          ELSE IF left_val.val.tag = "BOOLEAN" /\ right_val.val.tag = "BOOLEAN"
                               THEN BOOLEAN_(IF expr.operator = "And"
                                             THEN left_val.val.v /\ right_val.val.v
                                             ELSE left_val.val.v \/ right_val.val.v)
                          ELSE NoneV
            IN  IF ~IsSome(left_val.val) THEN left_val
                ELSE IF Dead(end) THEN Val(NoneV, end)
                ELSE Val(result, Log(end, [e |-> "logical", call |-> rt.call,
                                           operator |-> expr.operator,
                                           left |-> left_val.val, result |-> result,
                                           untouched |-> end = left_val.rt])))
      [] expr.kind = "ListLiteral" -> Runtime("evaluate_arguments", <<rt, expr.elements, 1, <<>>>>)
      [] expr.kind = "MemberAccess" ->
           (LET obj_value == Runtime("evaluate_expression", <<rt, expr.object>>)
            IN  IF ~IsSome(obj_value.val) THEN obj_value
                ELSE IF obj_value.val.tag = "CLASSINSTANCE"
                     THEN Val(Get(obj_value.val.v.fields, expr.member), obj_value.rt)
                ELSE Val(NoneV, obj_value.rt))
      [] expr.kind = "MethodCall" ->
           (LET obj_value == Runtime("evaluate_expression", <<rt, expr.object>>)
                args == Runtime("evaluate_arguments", <<obj_value.rt, expr.arguments, 1, <<>>>>)
            IN  IF ~IsSome(obj_value.val) THEN obj_value
                ELSE IF obj_value.val.tag # "CLASSINSTANCE" THEN Val(NoneV, obj_value.rt)
                ELSE IF ~IsSome(args.val) THEN args
                ELSE LET called == Runtime("call_method", <<args.rt, obj_value.val.v.class_name,
                                               expr.method, obj_value.val, args.val.v>>)
                     IN  IF Dead(called.rt) \/ expr.object.kind # "Variable" THEN called
                         ELSE Val(called.val,
                                  Log(called.rt,
                                      [e |-> "MethodCall", call |-> rt.call,
                                       object |-> expr.object.name, method |-> expr.method,
                                       value |-> called.val,
                                       before |-> args.rt.environment.variables,
                                       after |-> called.rt.environment.variables])))
      [] expr.kind = "FunctionCall" ->
           (LET is_class == is_class_meta_exists(rt.environment, expr.name)
                logged == Log(rt, [e |-> "FunctionCall", call |-> rt.call,
                                   name |-> expr.name, is_class |-> is_class,
                                   registered |-> expr.name \in rt.registered])
                args == Runtime("evaluate_arguments", <<logged, expr.arguments, 1, <<>>>>)
            IN  IF is_class
                THEN Resolved(logged,
                              Runtime("create_class_instance", <<logged, expr.name, expr.arguments>>),
                              expr.name, "class")
                ELSE IF ~IsSome(args.val) THEN args
                ELSE Runtime("call_function", <<args.rt, expr.name, args.val.v>>))
      [] expr.kind = "Grouping" -> Runtime("evaluate_expression", <<rt, expr.expression>>)

\* The numeric arms of ForLoop, from the iteration with value `current` on.
\* A loop that takes the next value from the loop variable as the body
\* left it.
for_loop_iterate_rereads(rt, statement, range, current, prev, iterations) ==
    IF ~ForLoopContinues(current, range.end, range.step)
    THEN Res("Continue", Log(rt, [e |-> "for_end", call |-> rt.call, range |-> range,
                                  iterations |-> iterations, current |-> current]))
    ELSE IF iterations >= MaxIterations THEN Res("Continue", [rt EXCEPT !.exhausted = TRUE])
    ELSE LET value == [tag |-> range.tag, v |-> current]
             bound == [rt EXCEPT !.environment = set_variable(@, statement.variable, value)]
             began == Log(bound, [e |-> "iter", call |-> rt.call, range |-> range,
                                  index |-> iterations, prev |-> prev, current |-> current,
                                  bound |-> get_variable(bound.environment,
                                                         statement.variable),
                                  variable |-> statement.variable,
                                  bounds |-> [start |-> statement.start,
                                              end |-> statement.end,
                                              step |-> statement.step],
                                  before |-> rt.environment,
                                  after |-> bound.environment])
             body == Runtime("run_statements", <<began, statement.body, 1>>)
             left == get_variable(body.rt.environment, statement.variable).v
             next == IF range.tag = "INTEGER32"
                     THEN ForLoopNext(left, range.step, rt.overflow_checks)
                     ELSE INTEGER64(left + range.step)
         IN  IF IsReturn(body) \/ Dead(body.rt) THEN body
             ELSE IF next.tag = "Panic" THEN Res("Continue", Panic(body.rt))
             ELSE Runtime("for_loop_iterate", <<body.rt, statement, range, next.v, current, iterations + 1>>)

for_loop_iterate(rt, statement, range, current, prev, iterations) ==
    IF ~ForLoopContinues(current, range.end, range.step)
    THEN Res("Continue", Log(rt, [e |-> "for_end", call |-> rt.call, range |-> range,
                                  iterations |-> iterations, current |-> current]))
    ELSE IF iterations >= MaxIterations THEN Res("Continue", [rt EXCEPT !.exhausted = TRUE])
    ELSE LET value == [tag |-> range.tag, v |-> current]
             bound == [rt EXCEPT !.environment = set_variable(@, statement.variable, value)]
             began == Log(bound, [e |-> "iter", call |-> rt.call, range |-> range,
                                  index |-> iterations, prev |-> prev, current |-> current,
                                  bound |-> get_variable(bound.environment,
                                                         statement.variable),
                                  variable |-> statement.variable,
                                  bounds |-> [start |-> statement.start,
                                              end |-> statement.end,
                                              step |-> statement.step],
                                  before |-> rt.environment,
                                  after |-> bound.environment])
             body == Runtime("run_statements", <<began, statement.body, 1>>)
             next == IF range.tag = "INTEGER32"
                     THEN ForLoopNext(current, range.step, rt.overflow_checks)
                     ELSE INTEGER64(current + range.step)
         IN  IF IsReturn(body) \/ Dead(body.rt) THEN body
             ELSE IF next.tag = "Panic" THEN Res("Continue", Panic(body.rt))
             ELSE Runtime("for_loop_iterate", <<body.rt, statement, range, next.v, current, iterations + 1>>)

while_loop_iterate(rt, statement, iterations) ==
    LET condition_result == Runtime("evaluate_expression", <<rt, statement.condition>>)
    IN  IF ~IsSome(condition_result.val) \/ Dead(condition_result.rt)
        THEN Res("Continue", condition_result.rt)
        ELSE IF ~Truthy(condition_result.val) THEN Res("Continue", condition_result.rt)
        ELSE IF iterations >= MaxIterations
             THEN Res("Continue", [condition_result.rt EXCEPT !.exhausted = TRUE])
        ELSE LET began == Log(condition_result.rt,
                              [e |-> "while_iter", call |-> rt.call, index |-> iterations])
                 body == Runtime("run_statements", <<began, statement.body, 1>>)
             IN  IF IsReturn(body) \/ Dead(body.rt) THEN body
                 ELSE Runtime("while_loop_iterate", <<body.rt, statement, iterations + 1>>)

\* A MemberAssignment that never writes the instance back into the variable.
execute_MemberAssignment_unwritten(rt, statement, new_value) ==
    IF statement.object.kind # "Variable" THEN rt
    ELSE Log(rt, [e |-> "member_assigned", call |-> rt.call,
                  object |-> statement.object.name, member |-> statement.member,
                  value |-> new_value])

execute_MemberAssignment(rt, statement, new_value) ==
    LET var_name == statement.object.name
        obj_value == get_variable(rt.environment, var_name)
        applies == /\ statement.object.kind = "Variable"
                   /\ IsSome(obj_value)
                   /\ obj_value.tag = "CLASSINSTANCE"
        instance == CLASSINSTANCE(obj_value.v.class_name,
                                  Put(obj_value.v.fields, statement.member, new_value))
    IN  IF ~applies THEN rt
        ELSE Log([rt EXCEPT !.environment = set_variable(@, var_name, instance)],
                 [e |-> "member_assigned", call |-> rt.call, object |-> var_name,
                  member |-> statement.member, value |-> new_value])

execute_ForLoop(rt, statement) ==
    LET start_val == Runtime("evaluate_expression", <<rt, statement.start>>)
        end_val == Runtime("evaluate_expression", <<start_val.rt, statement.end>>)
        step_val == Runtime("evaluate_expression", <<end_val.rt, statement.step>>)
        s == start_val.val
        e == end_val.val
        st == step_val.val
    IN  IF Dead(step_val.rt) \/ ~IsSome(s) \/ ~IsSome(e) \/ ~IsSome(st)
        THEN Res("Continue", step_val.rt)
        ELSE IF s.tag \in {"INTEGER32", "INTEGER64"} /\ e.tag = s.tag /\ st.tag = s.tag
             THEN Runtime("for_loop_iterate", <<step_val.rt, statement,
                                   [tag |-> s.tag, start |-> s.v, end |-> e.v, step |-> st.v],
                                   s.v, s.v, 0>>)
        ELSE Res("Continue",
                 Write(step_val.rt,
                       "For loop requires numeric values for start, end, and step\n"))

execute_Return(rt, statement) ==
    LET evaluated == IF statement.value.kind = "NoExpr" THEN Val(INTEGER32(0), rt)
                     ELSE Runtime("evaluate_expression", <<rt, statement.value>>)
        return_val == unwrap_or_zero(evaluated.val)
    IN  IF Dead(evaluated.rt) THEN Res("Continue", evaluated.rt)
        ELSE Res("Return",
                 Log([evaluated.rt EXCEPT !.returning = TRUE, !.return_value = return_val],
                     [e |-> "returned", call |-> rt.call, value |-> return_val,
                      evaluated |-> evaluated.val]))

\* A declaration or assignment whose failure sets the returning flag.
execute_Binding_failure_returns(rt, statement, value, evaluated) ==
    Log([evaluated EXCEPT !.returning = ~IsSome(value),
                          !.environment =
                              IF IsSome(value) THEN set_variable(@, statement.name, value)
                              ELSE @],
        [e |-> "bound", call |-> rt.call, kind |-> statement.kind,
         name |-> statement.name, expr |-> statement.value, value |-> value,
         before |-> rt.environment, after |-> evaluated.environment,
         returning |-> ~IsSome(value)])

\* Statement::VariableDeclaration and Statement::Assignment once the value
\* expression is evaluated: `if let Some(v) = ... { set_variable(name, v) }`,
\* and the declaration alone prints an error on None.
execute_Binding(rt, statement, value, evaluated) ==
    LET after == IF IsSome(value)
                 THEN [evaluated EXCEPT !.environment =
                           set_variable(@, statement.name, value)]
                 ELSE IF statement.kind = "Assignment" THEN evaluated
                 ELSE Write(evaluated,
                            "ERROR: Failed to evaluate expression for variable '"
                            \o statement.name \o "'\n")
    IN  Log(after, [e |-> "bound", call |-> rt.call, kind |-> statement.kind,
                    name |-> statement.name, expr |-> statement.value, value |-> value,
                    before |-> rt.environment, after |-> after.environment,
                    returning |-> after.returning])

execute_statement(rt, statement) ==
    IF ReturnPending(rt) THEN Res("Return", rt)
    ELSE IF Dead(rt) THEN Res("Continue", rt)
    ELSE LET kind == statement.kind
             at == Log(rt, [e |-> "stmt", call |-> rt.call, kind |-> kind])
         IN  CASE kind = "ClassMeta" ->
                    Res("Continue",
                        [at EXCEPT !.environment = set_class(@, statement.name, statement)])
               [] kind \in {"VariableDeclaration", "Assignment"} ->
                    (LET evaluated == Runtime("evaluate_expression", <<at, statement.value>>)
                     IN  IF Dead(evaluated.rt) THEN Res("Continue", evaluated.rt)
                         ELSE Res("Continue",
                                  execute_Binding(at, statement, evaluated.val, evaluated.rt)))
               [] kind = "MemberAssignment" ->
                    (LET new_value == Runtime("evaluate_expression", <<at, statement.value>>)
                     IN  IF Dead(new_value.rt) \/ ~IsSome(new_value.val)
                         THEN Res("Continue", new_value.rt)
                         ELSE Res("Continue", execute_MemberAssignment(new_value.rt, statement,
                                                                       new_value.val)))
               [] kind = "Conditional" ->
                    (LET condition_result == Runtime("evaluate_expression", <<at, statement.condition>>)
                     IN  IF Dead(condition_result.rt) \/ ~IsSome(condition_result.val)
                         THEN Res("Continue", condition_result.rt)
                         ELSE IF Truthy(condition_result.val)
                         THEN Runtime("run_statements", <<condition_result.rt, statement.then_branch, 1>>)
                         ELSE Runtime("run_statements", <<condition_result.rt,
                                             statement.else_branch.statements, 1>>))
               [] kind = "Block" -> Runtime("run_statements", <<at, statement.statements, 1>>)
               [] kind = "ExpressionStatement" ->
                    Res("Continue", Runtime("evaluate_expression", <<at, statement.expression>>).rt)
               [] kind = "ForLoop" -> execute_ForLoop(at, statement)
               [] kind = "WhileLoop" -> Runtime("while_loop_iterate", <<at, statement, 0>>)
               [] kind = "FunctionDeclaration" ->
                    Res("Continue",
                        [at EXCEPT !.functions =
                             Put(@, statement.name,
                                 UserFunction(statement.name, statement.params,
                                              statement.body, FALSE))])
               [] kind = "Return" -> execute_Return(at, statement)

\* execute_statements: the statements of one input, until `returning` is set.
execute_statements_from(rt, statements, i) ==
    IF i > Len(statements) \/ Dead(rt) THEN rt
    ELSE LET after == Runtime("execute_statement", <<rt, statements[i]>>).rt
         IN  IF after.returning THEN after
             ELSE Runtime("execute_statements_from", <<after, statements, i + 1>>)

execute_statements(rt, statements) == Runtime("execute_statements_from", <<rt, statements, 1>>)

\* impl Runtime: the call of a method by its name.
Runtime(method, args) ==
    CASE method = "execute_statement" -> execute_statement(args[1], args[2])
      [] method = "run_statements" -> run_statements(args[1], args[2], args[3])
      [] method = "evaluate_expression" -> evaluate_expression(args[1], args[2])
      [] method = "evaluate_arguments" -> evaluate_arguments(args[1], args[2], args[3], args[4])
      [] method = "for_loop_iterate" -> for_loop_iterate(args[1], args[2], args[3], args[4], args[5], args[6])
      [] method = "while_loop_iterate" -> while_loop_iterate(args[1], args[2], args[3])
      [] method = "call_function" -> call_function(args[1], args[2], args[3])
      [] method = "call_method" -> call_method(args[1], args[2], args[3], args[4], args[5])
      [] method = "create_class_instance" -> create_class_instance(args[1], args[2], args[3])
      [] method = "execute_statements_from" -> execute_statements_from(args[1], args[2], args[3])

(***************************************************************************)
(* Repl.rs: the inputs typed at the prompt, as the token lists the lexer   *)
(* makes of them (the text of each is given above it).                     *)
(***************************************************************************)
Inputs ==
    LET let == Token("LET")          fn == Token("FN")
        return == Token("RETURN")    class == Token("CLASS")
        public == Token("PUBLIC")    self == Token("SELF")
        if == Token("IF")            while == Token("WHILE")
        else == Token("ELSE")
        for == Token("FOR")          in == Token("IN")
        and == Token("AND")          or == Token("OR")
        lp == Token("LPAREN")        rp == Token("RPAREN")
        lb == Token("LBRACE")        rb == Token("RBRACE")
        ls == Token("LSQRBRAC")      rs == Token("RSQRBRAC")
        eq == Token("EQUALS")        eqeq == Token("EQUALS_EQUALS")
        comma == Token("COMMA")      colon == Token("COLON")
        dot == Token("DOT")          slash == Token("SLASH")
        plus == Token("PLUS")        minus == Token("MINUS")
        star == Token("STAR")        mod == Token("MODULO")
        less == Token("LESS")        le == Token("LESS_EQUALS")
        ne == Token("NOT_EQUALS")
        str(text) == VALUE(STRING_(text))
        id(name) == IDENTIFIER(name)
        num(n) == VALUE(INTEGER32(n))
        bool(b) == VALUE(BOOLEAN_(b))
        i32 == TYPE("INTEGER32")
        range(variable, start, end, step) ==
            <<for, id(variable), in, dot, slash, ls>> \o start \o <<comma>> \o end
                \o <<comma>> \o step \o <<rs>>
    IN  <<
        \* let a = 1
        \* fn f(p: i32) { a = p + a  let b = a  return b }
        \* fn h() { a = 7 }
        \* let r = f(5) + h()
        \* let q = f()
        <<let, id("a"), eq, num(1),
          fn, id("f"), lp, id("p"), colon, i32, rp, lb,
              id("a"), eq, id("p"), plus, id("a"),
              let, id("b"), eq, id("a"),
              return, id("b"), rb,
          fn, id("h"), lp, rp, lb, id("a"), eq, num(7), rb,
          let, id("r"), eq, id("f"), lp, num(5), rp, plus, id("h"), lp, rp,
          let, id("q"), eq, id("f"), lp, rp>>,
        \* fn g(n: i32) {
        \*   for i in ./[0, n, 1] {
        \*     if (i == 1) { while (true) { { return i + 10 } } println(0) }
        \*   }
        \*   return 9
        \* }
        \* let r = g(3)
        <<fn, id("g"), lp, id("n"), colon, i32, rp, lb>>
          \o range("i", <<num(0)>>, <<id("n")>>, <<num(1)>>) \o
          <<lb, if, lp, id("i"), eqeq, num(1), rp, lb,
                    while, lp, bool(TRUE), rp, lb, lb,
                        return, id("i"), plus, num(10), rb, rb,
                    id("println"), lp, num(0), rp, rb,
            rb,
            return, num(9), rb,
          let, id("r"), eq, id("g"), lp, num(3), rp>>,
        \* class Box {
        \*   public { v: i32 on: bool s: string }
        \*   public { fn get(self) { return self.v }
        \*            fn bump(self, n: i32) { self.v = n  b.v = n  return v } }
        \* }
        \* let b = Box()
        <<class, id("Box"), lb,
            public, lb, id("v"), colon, i32, id("on"), colon, TYPE("BOOLEAN"),
                        id("s"), colon, TYPE("STRING"), rb,
            public, lb,
                fn, id("get"), lp, self, rp, lb, return, self, dot, id("v"), rb,
                fn, id("bump"), lp, self, comma, id("n"), colon, i32, rp, lb,
                    self, dot, id("v"), eq, id("n"),
                    id("b"), dot, id("v"), eq, id("n"),
                    return, id("v"), rb,
            rb, rb,
          let, id("b"), eq, id("Box"), lp, rp>>,
        \* b.v = 9
        <<id("b"), dot, id("v"), eq, num(9)>>,
        \* let t = b.bump(4)
        \* println(b.get())
        \* let z = b.bump()
        \* let q = h(1)
        <<let, id("t"), eq, id("b"), dot, id("bump"), lp, num(4), rp,
          id("println"), lp, id("b"), dot, id("get"), lp, rp, rp,
          let, id("z"), eq, id("b"), dot, id("bump"), lp, rp,
          let, id("q"), eq, id("h"), lp, num(1), rp>>,
        \* b.w = 1
        <<id("b"), dot, id("w"), eq, num(1)>>,
        \* fn mk() { return Box() }
        \* fn use() { return b.get() }
        \* let m = mk()
        \* let u = use()
        <<fn, id("mk"), lp, rp, lb, return, id("Box"), lp, rp, rb,
          fn, id("use"), lp, rp, lb, return, id("b"), dot, id("get"), lp, rp, rb,
          let, id("m"), eq, id("mk"), lp, rp,
          let, id("u"), eq, id("use"), lp, rp>>,
        \* class P {
        \*   public { x: i32 get: i32 x: bool }
        \*   public { fn __init__(self, n: i32) { self.x = n  let s = self  s.x = n }
        \*            fn get(self) { return 1 } }
        \* }
        \* let p = P(7)
        <<class, id("P"), lb,
            public, lb, id("x"), colon, i32, id("get"), colon, i32,
                        id("x"), colon, TYPE("BOOLEAN"), rb,
            public, lb,
                fn, id("__init__"), lp, self, comma, id("n"), colon, i32, rp, lb,
                    self, dot, id("x"), eq, id("n"),
                    let, id("s"), eq, self, id("s"), dot, id("x"), eq, id("n"), rb,
                fn, id("get"), lp, self, rp, lb, return, num(1), rb,
            rb, rb,
          let, id("p"), eq, id("P"), lp, num(7), rp>>,
        \* for i in ./[0, 5, 1] { print(i) }
        \* for j in ./[5, 0, -1] { print(j) }
        \* for k in ./[0, 5, 0] { print(k) }
        range("i", <<num(0)>>, <<num(5)>>, <<num(1)>>)
          \o <<lb, id("print"), lp, id("i"), rp, rb>>
          \o range("j", <<num(5)>>, <<num(0)>>, <<minus, num(1)>>)
          \o <<lb, id("print"), lp, id("j"), rp, rb>>
          \o range("k", <<num(0)>>, <<num(5)>>, <<num(0)>>)
          \o <<lb, id("print"), lp, id("k"), rp, rb>>,
        \* for o in ./[2147483646, 2147483647, 2] { print(o) }
        range("o", <<num(2147483646)>>, <<num(2147483647)>>, <<num(2)>>)
          \o <<lb, id("print"), lp, id("o"), rp, rb>>,
        \* fn side() { println(1) return true }
        \* let x = false and side()
        \* let y = true or side()
        \* let z = true and side()
        \* let w = 0 or side()
        <<fn, id("side"), lp, rp, lb, id("println"), lp, num(1), rp,
              return, bool(TRUE), rb,
          let, id("x"), eq, bool(FALSE), and, id("side"), lp, rp,
          let, id("y"), eq, bool(TRUE), or, id("side"), lp, rp,
          let, id("z"), eq, bool(TRUE), and, id("side"), lp, rp,
          let, id("w"), eq, num(0), or, id("side"), lp, rp>>,
        \* let a = 1  let d = a / 0  a = a % 0  let e = 5
        <<let, id("a"), eq, num(1),
          let, id("d"), eq, id("a"), slash, num(0),
          id("a"), eq, id("a"), mod, num(0),
          let, id("e"), eq, num(5)>>,
        \* fn len(n: i32) { return 42 }  let u = len(1)  let n = nothing(1)
        \* class len { public { v: i32 } }  let c = len(1)
        <<fn, id("len"), lp, id("n"), colon, i32, rp, lb, return, num(42), rb,
          let, id("u"), eq, id("len"), lp, num(1), rp,
          let, id("n"), eq, id("nothing"), lp, num(1), rp,
          class, id("len"), lb, public, lb, id("v"), colon, i32, rb, rb,
          let, id("c"), eq, id("len"), lp, num(1), rp>>,
        \* fn inner() { return loc + p }
        \* fn outer(p: i32) { let loc = 2  return inner() }
        \* let p = 10  let v = outer(5)
        <<fn, id("inner"), lp, rp, lb, return, id("loc"), plus, id("p"), rb,
          fn, id("outer"), lp, id("p"), colon, i32, rp, lb,
              let, id("loc"), eq, num(2), return, id("inner"), lp, rp, rb,
          let, id("p"), eq, num(10),
          let, id("v"), eq, id("outer"), lp, num(5), rp>>,
        \* { let y = 2 }  if (y == 2) { let t = y }  while (t == 2) { t = 3 }
        \* for i in ./[0, 2, 1] { let fv = i + t }  let s = fv + i
        <<lb, let, id("y"), eq, num(2), rb,
          if, lp, id("y"), eqeq, num(2), rp, lb, let, id("t"), eq, id("y"), rb,
          while, lp, id("t"), eqeq, num(2), rp, lb, id("t"), eq, num(3), rb>>
          \o range("i", <<num(0)>>, <<num(2)>>, <<num(1)>>)
          \o <<lb, let, id("fv"), eq, id("i"), plus, id("t"), rb,
               let, id("s"), eq, id("fv"), plus, id("i")>>,
        \* fn z() { return 1 }
        \* let m1 = 1 + true  let m2 = 1 / 0  let m3 = nope  let m4 = len(1)
        \* let m5 = z(1)  let ok = 1  return ok  let late = 2
        <<fn, id("z"), lp, rp, lb, return, num(1), rb,
          let, id("m1"), eq, num(1), plus, bool(TRUE),
          let, id("m2"), eq, num(1), slash, num(0),
          let, id("m3"), eq, id("nope"),
          let, id("m4"), eq, id("len"), lp, num(1), rp,
          let, id("m5"), eq, id("z"), lp, num(1), rp,
          let, id("ok"), eq, num(1),
          return, id("ok"),
          let, id("late"), eq, num(2)>>,
        \* let s1 = "a" == "a"  let s2 = "a" < "b"  let n1 = 1 <= 2
        \* let d1 = 1 == "a"  let d2 = 1 != "a"  let d3 = 1 < "a"
        <<let, id("s1"), eq, str("a"), eqeq, str("a"),
          let, id("s2"), eq, str("a"), less, str("b"),
          let, id("n1"), eq, num(1), le, num(2),
          let, id("d1"), eq, num(1), eqeq, str("a"),
          let, id("d2"), eq, num(1), ne, str("a"),
          let, id("d3"), eq, num(1), less, str("a")>>,
        \* class K { public { v: i32 } }  let k = K()
        \* if (k) { let t1 = 1 } else { let e1 = 1 }
        \* if ("") { let t2 = 1 } else { let e2 = 1 }
        \* if ([0]) { let t3 = 1 }
        \* while (k) { let w1 = 1 }  while (0) { let w2 = 1 }
        <<class, id("K"), lb, public, lb, id("v"), colon, i32, rb, rb,
          let, id("k"), eq, id("K"), lp, rp,
          if, lp, id("k"), rp, lb, let, id("t1"), eq, num(1), rb,
              else, lb, let, id("e1"), eq, num(1), rb,
          if, lp, str(""), rp, lb, let, id("t2"), eq, num(1), rb,
              else, lb, let, id("e2"), eq, num(1), rb,
          if, lp, ls, num(0), rs, rp, lb, let, id("t3"), eq, num(1), rb,
          while, lp, id("k"), rp, lb, let, id("w1"), eq, num(1), rb,
          while, lp, num(0), rp, lb, let, id("w2"), eq, num(1), rb>>,
        \* fn nr() { let a = 1 }  fn rz() { return 1 / 0 }
        \* let x = nr()  let y = rz()
        <<fn, id("nr"), lp, rp, lb, let, id("a"), eq, num(1), rb,
          fn, id("rz"), lp, rp, lb, return, num(1), slash, num(0), rb,
          let, id("x"), eq, id("nr"), lp, rp,
          let, id("y"), eq, id("rz"), lp, rp>>,
        \* let m = -2147483647 - 1  let d = m / -1  let e = 5
        <<let, id("m"), eq, minus, num(2147483647), minus, num(1),
          let, id("d"), eq, id("m"), slash, minus, num(1),
          let, id("e"), eq, num(5)>>,
        \* fn w() { return 1 }  fn mk() { fn w() { return 2 }  let loc = 1 }
        \* let a = w()  let b = mk()  let c = w()
        <<fn, id("w"), lp, rp, lb, return, num(1), rb,
          fn, id("mk"), lp, rp, lb,
              fn, id("w"), lp, rp, lb, return, num(2), rb,
              let, id("loc"), eq, num(1), rb,
          let, id("a"), eq, id("w"), lp, rp,
          let, id("b"), eq, id("mk"), lp, rp,
          let, id("c"), eq, id("w"), lp, rp>>,
        \* class M { public { } public { fn mk(self) { fn w2() { return 3 } } } }
        \* let o = M()  let t = o.mk()  let d = w2()
        <<class, id("M"), lb, public, lb, rb,
            public, lb, fn, id("mk"), lp, self, rp, lb,
                fn, id("w2"), lp, rp, lb, return, num(3), rb, rb, rb, rb,
          let, id("o"), eq, id("M"), lp, rp,
          let, id("t"), eq, id("o"), dot, id("mk"), lp, rp,
          let, id("d"), eq, id("w2"), lp, rp>>,
        \* let n = 3  let k = 0
        \* for i in ./[0, n, 1] { i = 10  n = 0  k = k + 1 }
        <<let, id("n"), eq, num(3), let, id("k"), eq, num(0)>>
          \o range("i", <<num(0)>>, <<id("n")>>, <<num(1)>>)
          \o <<lb, id("i"), eq, num(10), id("n"), eq, num(0),
               id("k"), eq, id("k"), plus, num(1), rb>>
        >>

\* Nothing lexed or parsed yet.
Unparsed == [done |-> FALSE, tokens |-> <<>>, statements |-> <<>>]

\* ASTParser::parse of every input.
Programs == [i \in DOMAIN Inputs |-> parse(Inputs[i])]

(***************************************************************************)
(* The state machine: main.rs builds the interpreter in the debug or in    *)
(* the release profile; Repl.rs start_repl makes one Runtime and feeds it  *)
(* every input.                                                            *)
(***************************************************************************)
Init ==
    /\ runtime \in {Runtime_new(checks) : checks \in BOOLEAN}
    /\ inputs_read = 0
    /\ content = <<>>
    /\ parsed = Unparsed

\* One turn of the loop of start_repl.
ReplInput(i) ==
    /\ inputs_read < MaxInputs
    /\ ~Dead(runtime)
    /\ runtime' = execute_statements(
                      [runtime EXCEPT !.stdout = "", !.trace = <<>>, !.calls = 0],
                      Programs[i])
    /\ inputs_read' = inputs_read + 1
    /\ UNCHANGED <<content, parsed>>

Next == \E i \in DOMAIN Inputs : ReplInput(i)

Spec == Init /\ [][Next]_vars

(***************************************************************************)
(* main.rs, the front end: the text of a source file is lexed and parsed.  *)
(* The texts are `let r = a <op> b <op> c` for every two binary operators, *)
(* a declaration, a parameter and a class attribute annotated with every   *)
(* type name, the operators written with `=`, broken texts, statements     *)
(* that begin with `self`, and texts with a point.                         *)
(***************************************************************************)
RECURSIVE Join(_)
Join(words) ==
    IF Len(words) = 1 THEN Head(words) ELSE Head(words) \o <<" ">> \o Join(Tail(words))

\* The binary operators as written, with the node and the operator the
\* grammar of the language gives them and their precedence level.
BinaryOperators ==
    {[chars |-> <<"o", "r">>, kind |-> "LogicalOperation", operator |-> "Or", level |-> 1],
     [chars |-> <<"a", "n", "d">>, kind |-> "LogicalOperation", operator |-> "And",
      level |-> 2],
     [chars |-> <<"=", "=">>, kind |-> "ComparisonOperation", operator |-> "Equal",
      level |-> 3],
     [chars |-> <<"!", "=">>, kind |-> "ComparisonOperation", operator |-> "NotEqual",
      level |-> 3],
     [chars |-> <<"<">>, kind |-> "ComparisonOperation", operator |-> "Less", level |-> 3],
     [chars |-> <<">">>, kind |-> "ComparisonOperation", operator |-> "Greater",
      level |-> 3],
     [chars |-> <<"<", "=">>, kind |-> "ComparisonOperation", operator |-> "LessEqual",
      level |-> 3],
     [chars |-> <<">", "=">>, kind |-> "ComparisonOperation", operator |-> "GreaterEqual",
      level |-> 3],
     [chars |-> <<"+">>, kind |-> "BinaryOperation", operator |-> "Add", level |-> 4],
     [chars |-> <<"-">>, kind |-> "BinaryOperation", operator |-> "Subtract", level |-> 4],
     [chars |-> <<"*">>, kind |-> "BinaryOperation", operator |-> "Multiply", level |-> 5],
     [chars |-> <<"/">>, kind |-> "BinaryOperation", operator |-> "Divide", level |-> 5],
     [chars |-> <<"%">>, kind |-> "BinaryOperation", operator |-> "Modulo", level |-> 5]}

\* let r = a <first> b <second> c
ExpressionContent(first, second) ==
    Join(<<<<"l", "e", "t">>, <<"r">>, <<"=">>, <<"a">>, first.chars, <<"b">>,
           second.chars, <<"c">>>>)

\* let r = a == b and c == d
TwoComparisonsContent ==
    Join(<<<<"l", "e", "t">>, <<"r">>, <<"=">>, <<"a">>, <<"=", "=">>, <<"b">>,
           <<"a", "n", "d">>, <<"c">>, <<"=", "=">>, <<"d">>>>)

\* The type names of the language as written, with the variant of Types
\* each stands for.
SurfaceTypes ==
    {[chars |-> <<"i", "3", "2">>, data_type |-> "INTEGER32"],
     [chars |-> <<"i", "6", "4">>, data_type |-> "INTEGER64"],
     [chars |-> <<"f", "3", "2">>, data_type |-> "FLOAT32"],
     [chars |-> <<"f", "6", "4">>, data_type |-> "FLOAT64"],
     [chars |-> <<"b", "o", "o", "l">>, data_type |-> "BOOLEAN"],
     [chars |-> <<"s", "t", "r", "i", "n", "g">>, data_type |-> "STRING"],
     [chars |-> <<"l", "i", "s", "t">>, data_type |-> "LIST"]}

\* let x: <type> = 1
DeclarationContent(type) ==
    <<"l", "e", "t", " ", "x", ":", " ">> \o type.chars \o <<" ", "=", " ", "1">>

\* fn f(p: <type>) { return p }
ParameterContent(type) ==
    <<"f", "n", " ", "f", "(", "p", ":", " ">> \o type.chars
        \o <<")", " ", "{", " ", "r", "e", "t", "u", "r", "n", " ", "p", " ", "}">>

\* class K { public { v: <type> } }
AttributeContent(type) ==
    <<"c", "l", "a", "s", "s", " ", "K", " ", "{", " ", "p", "u", "b", "l", "i", "c", " ",
      "{", " ", "v", ":", " ">> \o type.chars \o <<" ", "}", " ", "}">>

\* a<op>b and a <op> b for the operators written with '=', and texts where
\* '=' stands apart from the '!', '<' or '>' before it or follows another
\* token.
EqualsContents ==
    {<<"a">> \o op \o <<"b">> :
        op \in {<<"=", "=">>, <<"!", "=">>, <<"<", "=">>, <<">", "=">>, <<"=">>}}
      \cup {<<"a", " ">> \o op \o <<" ", "b">> :
        op \in {<<"=", "=">>, <<"!", "=">>, <<"<", "=">>, <<">", "=">>, <<"=">>,
                <<"!", " ", "=">>, <<"<", " ", "=">>, <<">", "\n", "=">>,
                <<"<", "=", "=">>, <<"=", "<">>, <<"<", "x", "=">>, <<"!">>}}
      \cup {<<"=", " ", "b">>, <<"!", "=">>, <<"<", "=">>, <<"=">>}

\* Texts with tokens no statement can begin with, with productions that
\* fail after their first token, and with both inside a block.
\*   ) x = 1          let let x = 1        { ) x = 1 }
\*   x = = 1          a + ( b              fn f( { a.
\*   { let } y = 2    if ( a { } b         } } a
BrokenContents ==
    {<<")", " ", "x", " ", "=", " ", "1">>,
     <<"l", "e", "t", " ", "l", "e", "t", " ", "x", " ", "=", " ", "1">>,
     <<"{", " ", ")", " ", "x", " ", "=", " ", "1", " ", "}">>,
     <<"x", " ", "=", " ", "=", " ", "1">>,
     <<"a", " ", "+", " ", "(", " ", "b">>,
     <<"f", "n", " ", "f", "(", " ", "{", " ", "a", ".">>,
     <<"{", " ", "l", "e", "t", " ", "}", " ", "y", " ", "=", " ", "2">>,
     <<"i", "f", " ", "(", " ", "a", " ", "{", " ", "}", " ", "b">>,
     <<"}", " ", "}", " ", "a">>}

\* Statements that begin with `self`, alone and in the body of a method.
SelfAssignmentContent == <<"s", "e", "l", "f", ".", "v", " ", "=", " ", "e">>

SelfCallContent == <<"s", "e", "l", "f", ".", "m", "(", ")">>

\* class C{public{}public{fn s(self){self.v=e self.m()}}}
SelfMethodContent ==
    <<"c", "l", "a", "s", "s", " ", "C", "{", "p", "u", "b", "l", "i", "c", "{", "}",
      "p", "u", "b", "l", "i", "c", "{", "f", "n", " ", "s", "(", "s", "e", "l", "f",
      ")", "{", "s", "e", "l", "f", ".", "v", "=", "e", " ", "s", "e", "l", "f", ".",
      "m", "(", ")", "}", "}", "}">>

SelfContents == {SelfAssignmentContent, SelfCallContent, SelfMethodContent}

\* Texts with a point: 1.5, let x = 1.5, 3., .5, 1.2.3, 0.0, a.b, and the
\* string "1.5".
PointContents ==
    {<<"1", ".", "5">>,
     <<"l", "e", "t", " ", "x", " ", "=", " ", "1", ".", "5">>,
     <<"3", ".">>,
     <<".", "5">>,
     <<"1", ".", "2", ".", "3">>,
     <<"0", ".", "0">>,
     <<"a", ".", "b">>,
     <<"x", " ", "=", " ", "\"", "1", ".", "5", "\"">>}

Contents ==
    {ExpressionContent(first, second) : first \in BinaryOperators, second \in BinaryOperators}
        \cup {TwoComparisonsContent}
        \cup {DeclarationContent(type) : type \in SurfaceTypes}
        \cup {ParameterContent(type) : type \in SurfaceTypes}
        \cup {AttributeContent(type) : type \in SurfaceTypes}
        \cup EqualsContents
        \cup BrokenContents
        \cup SelfContents
        \cup PointContents

ParserInit ==
    /\ runtime = Runtime_new(TRUE)
    /\ inputs_read = 0
    /\ content \in Contents
    /\ parsed = Unparsed

\* main.rs: `tokenizer.process_content(&content)`, then `parser.parse(tokens)`.
ParseContent ==
    /\ ~parsed.done
    /\ parsed' = [done |-> TRUE, tokens |-> process_content(content),
                  statements |-> parse(process_content(content))]
    /\ UNCHANGED <<runtime, inputs_read, content>>

ParserNext == ParseContent

ParserSpec == ParserInit /\ [][ParserNext]_vars

(***************************************************************************)
(* Properties.  They read the events of the input that was executed last.  *)
(***************************************************************************)
Trace == runtime.trace

Events(e) == {i \in DOMAIN Trace : Trace[i].e = e}

\* The events of call number `call` that come after event i.
LaterOf(i, call) == {j \in DOMAIN Trace : j > i /\ Trace[j].call = call}

\* The call of event i executed a Return statement.
Returned(i) == \E j \in Events("returned") : j < i /\ Trace[j].call = Trace[i].call

\* C1: when a call of a user function is over, with or without a Return
\* statement, the variables of the caller are the variables it had just
\* before the call: no binding made in the body (parameters included) is
\* left and every earlier binding has its earlier value.
C1_CallerVariablesRestored ==
    \A i \in Events("exit") :
        Trace[i].kind = "function" => Trace[i].after.variables = Trace[i].before.variables

\* A call of a user function ended whose body had bound a new name and had
\* given another value to a name of the caller.
C1_Witness ==
    \E i \in Events("exit") :
        LET before == Trace[i].before.variables
            inside == Trace[i].inside
        IN  /\ Trace[i].kind = "function"
            /\ DOMAIN inside \ DOMAIN before # {}
            /\ \E name \in DOMAIN before : inside[name] # before[name]

\* C2: a class that was registered when a call began is resolvable in the
\* body of the call: a FunctionCall on its name constructs an instance and
\* a method call on one of its instances finds the class.
C2_ClassesResolvableInCalls ==
    \A i \in DOMAIN Trace :
        /\ Trace[i].e = "FunctionCall" /\ Trace[i].registered => Trace[i].is_class
        /\ Trace[i].e = "dispatch" /\ Trace[i].registered => Trace[i].class_found

\* C3: once a Return statement has executed in the body of a function or of
\* a method, nothing more of that body executes, neither a statement nor a
\* loop iteration, and the call yields the value of the Return.
C3_ReturnEndsTheBody ==
    \A i \in Events("returned") :
        Trace[i].call # 0 =>
            /\ \A j \in LaterOf(i, Trace[i].call) : Trace[j].e = "exit"
            /\ \E j \in LaterOf(i, Trace[i].call) : Trace[j].value = Trace[i].value

\* A Return executed in a block in a while-loop in a conditional in a
\* for-loop of a function body, and the call yielded its value.
C3_Witness ==
    \E i \in Events("returned") :
        /\ Trace[i].call # 0
        /\ \E j \in Events("iter") : j < i /\ Trace[j].call = Trace[i].call
        /\ \E j \in Events("while_iter") : j < i /\ Trace[j].call = Trace[i].call
        /\ \E j \in Events("stmt") :
               j < i /\ Trace[j].call = Trace[i].call /\ Trace[j].kind = "Block"
        /\ \E j \in LaterOf(i, Trace[i].call) :
               Trace[j].e = "exit" /\ Trace[j].value = Trace[i].value

\* C4: when a call of a user function or of a method is over, by a Return,
\* at the end of the body or on an arity failure, the returning flag, the
\* pending return value and the method context are what they were just
\* before the call.
C4_ControlStateRestored ==
    \A i \in Events("exit") \cup Events("arity") :
        /\ Trace[i].after.returning = Trace[i].before.returning
        /\ Trace[i].after.return_value = Trace[i].before.return_value
        /\ Trace[i].after.method_context = Trace[i].before.method_context

\* A call ended by a Return, a call ended at the end of its body and a call
\* failed on its arity, and the caller went on to its next statement after
\* the callee's Return.
C4_Witness ==
    /\ \E i \in Events("exit") :
           /\ Returned(i)
           /\ \E j \in Events("stmt") : j > i /\ Trace[j].call < Trace[i].call
    /\ \E i \in Events("exit") : ~Returned(i)
    /\ \E i \in Events("arity") : TRUE

\* C5: after a method call x.m(args) on a variable x, the caller's x holds
\* the field values it held before the call.
C5_CallerInstanceUnchanged ==
    \A i \in Events("MethodCall") :
        LET x == Trace[i].object
        IN  Has(Trace[i].before, x) =>
                Has(Trace[i].after, x) /\ Trace[i].after[x] = Trace[i].before[x]

\* A method call on x ended in whose body the field values of x, or the
\* variable a `self.f = e` assigns, had been changed.
C5_Witness ==
    \E i \in Events("MethodCall") :
        LET x == Trace[i].object
            ended == Trace[i - 1]
        IN  /\ i > 1
            /\ ended.e = "exit" /\ ended.kind = "method"
            /\ Has(Trace[i].before, x) /\ Has(ended.inside, x)
            /\ ended.inside[x] # Trace[i].before[x]
            /\ DOMAIN ended.inside # DOMAIN Trace[i].before

\* The attributes that the text of an input declares in the first `public`
\* section of the class: [name, data_type, at] with `at` the place of the
\* declaration in the section.
ClassTexts ==
    UNION {{<<i, k>> : k \in {k \in DOMAIN Inputs[i] : Inputs[i][k].t = "CLASS"}} :
           i \in DOMAIN Inputs}

DeclaredAttributes(class_name) ==
    LET text == CHOOSE ik \in ClassTexts : Inputs[ik[1]][ik[2] + 1].v = class_name
        tokens == Inputs[text[1]]
        first == text[2] + 5
        places == {p \in first..Len(tokens) :
                      /\ (p - first) % 3 = 0
                      /\ \A q \in first..p : tokens[q].t # "RBRACE"}
    IN  {[name |-> tokens[p].v, data_type |-> tokens[p + 2].v, at |-> p] : p \in places}

DefaultOf(data_type) ==
    CASE data_type \in {"INTEGER32", "INTEGER64"} -> [tag |-> data_type, v |-> 0]
      [] data_type = "BOOLEAN" -> [tag |-> "BOOLEAN", v |-> FALSE]
      [] data_type = "STRING" -> [tag |-> "STRING", v |-> ""]
      [] data_type = "LIST" -> [tag |-> "LIST", v |-> <<>>]

\* C6 as stated: every constructed instance holds each attribute declared in
\* the first `public` section of its class with the default of the declared
\* type.
C6_EveryDeclaredAttribute ==
    \A i \in Events("construct") :
        \A a \in DeclaredAttributes(Trace[i].class_name) :
            LET fields == Trace[i].instance.v.fields
            IN  Has(fields, a.name) /\ fields[a.name] = DefaultOf(a.data_type)

\* C6: every constructed instance holds each attribute name of the first
\* `public` section of its class that no method of the class bears, with the
\* default of the type of the last declaration of that name, whether or not
\* the class defines __init__ and whatever __init__ does.
C6_AttributesNotOverwritten ==
    \A i \in Events("construct") :
        LET declared == DeclaredAttributes(Trace[i].class_name)
            fields == Trace[i].instance.v.fields
        IN  \A a \in declared :
                /\ a.name \notin Trace[i].methods
                /\ \A b \in declared : b.name = a.name => b.at <= a.at
                => Has(fields, a.name) /\ fields[a.name] = DefaultOf(a.data_type)

\* An instance was constructed after the __init__ of its class had assigned
\* to a field of self and to a field of a copy of self.
C6_Witness ==
    \E i \in Events("construct") :
        /\ \E a \in DeclaredAttributes(Trace[i].class_name) :
               a.name \notin Trace[i].methods
        /\ \E j \in Events("exit") :
               /\ j < i /\ Trace[j].name = "__init__" /\ Trace[j].kind = "method"
               /\ \E name \in DOMAIN Trace[j].inside :
                      /\ Trace[j].inside[name].tag = "CLASSINSTANCE"
                      /\ Trace[j].inside[name] # Trace[i].instance

\* C7: an instance held in a variable has exactly the field names that its
\* class declares as attributes.
C7_FieldNamesFixed ==
    \A x \in DOMAIN runtime.environment.variables :
        LET value == runtime.environment.variables[x]
            class_def == get_class(runtime.environment, value.v.class_name)
        IN  /\ value.tag = "CLASSINSTANCE"
            /\ is_class_meta_exists(runtime.environment, value.v.class_name)
            => DOMAIN value.v.fields =
                   {n \in DOMAIN class_def.fields :
                       class_def.fields[n].kind = "ClassAttribute"}

\* The methods of the class that take no argument and whose body is
\* `return self.<member>`.
Getters(class_name, member) ==
    LET members == get_class(runtime.environment, class_name).fields
    IN  {m \in DOMAIN members :
            /\ members[m].kind = "FunctionDeclaration"
            /\ non_self_params(members[m].params) = <<>>
            /\ members[m].body = <<Return(MemberAccess(Variable("self"), member))>>}

\* The top-level member assignment that the input ended with.
LastAssigned == Trace[Len(Trace)]

EndsWithMemberAssignment ==
    /\ Len(Trace) > 0
    /\ LastAssigned.e = "member_assigned"
    /\ LastAssigned.call = 0
    /\ ~Dead(runtime)

\* C8: after `x.f = v` at top level on a variable x that holds an instance,
\* the expression x.f yields v and so does every method call on x whose
\* method returns self.f.
C8_AssignedMemberIsRead ==
    EndsWithMemberAssignment =>
        LET x == Variable(LastAssigned.object)
            class_name == get_variable(runtime.environment, LastAssigned.object).v.class_name
        IN  /\ evaluate_expression(runtime, MemberAccess(x, LastAssigned.member)).val
                   = LastAssigned.value
            /\ \A m \in Getters(class_name, LastAssigned.member) :
                   evaluate_expression(runtime, MethodCall(x, m, <<>>)).val
                       = LastAssigned.value

\* A top-level assignment gave a field a value other than its default, and
\* the class of the instance has a method that returns that field.
C8_Witness ==
    /\ EndsWithMemberAssignment
    /\ LastAssigned.value = INTEGER32(9)
    /\ Getters(get_variable(runtime.environment, LastAssigned.object).v.class_name,
               LastAssigned.member) # {}

\* C9: the iterations of a ForLoop over integers take the values start,
\* start + step, start + 2 * step, ... in that order while
\* (step > 0 and value < end) or (step < 0 and value > end), each with the
\* loop variable bound to the value when it begins; the loop ends at the
\* first value that is out of the range, and at once when step = 0.
C9_ForLoopValues ==
    /\ \A i \in Events("iter") :
           LET it == Trace[i]
           IN  /\ it.index = 0 => it.current = it.range.start
               /\ it.index > 0 =>
                      /\ ~AddOverflows(it.prev, it.range.step)
                      /\ it.current = it.prev + it.range.step
               /\ \/ it.range.step > 0 /\ it.current < it.range.end
                  \/ it.range.step < 0 /\ it.current > it.range.end
               /\ it.bound = [tag |-> it.range.tag, v |-> it.current]
    /\ \A i \in Events("for_end") :
           Trace[i].range.step = 0 => Trace[i].iterations = 0

\* C10: in `L and R` with L boolean false, R is not evaluated and the result
\* is false; in `L or R` with L boolean true, R is not evaluated and the
\* result is true.
C10_ShortCircuit ==
    \A i \in Events("logical") :
        /\ Trace[i].operator = "And" /\ Trace[i].left = [tag |-> "BOOLEAN", v |-> FALSE]
           => Trace[i].untouched /\ Trace[i].result = [tag |-> "BOOLEAN", v |-> FALSE]
        /\ Trace[i].operator = "Or" /\ Trace[i].left = [tag |-> "BOOLEAN", v |-> TRUE]
           => Trace[i].untouched /\ Trace[i].result = [tag |-> "BOOLEAN", v |-> TRUE]

\* Both short circuits happened in front of a call that prints, and an
\* `and` whose left operand is true did evaluate its right operand.
C10_Witness ==
    /\ \E i \in Events("logical") :
           Trace[i].operator = "And" /\ Trace[i].left = [tag |-> "BOOLEAN", v |-> FALSE]
    /\ \E i \in Events("logical") :
           Trace[i].operator = "Or" /\ Trace[i].left = [tag |-> "BOOLEAN", v |-> TRUE]
    /\ \E i \in Events("logical") : ~Trace[i].untouched

\* The value of an operand that is a literal or a bound variable.
OperandValue(expr, variables) ==
    IF expr.kind = "Value" THEN expr.value
    ELSE IF expr.kind = "Variable" /\ Has(variables, expr.name)
    THEN Get(variables, expr.name)
    ELSE NoneV

\* expr is `l / r` or `l % r` with l an integer and r the zero of its type.
DividesByZero(expr, variables) ==
    /\ expr.kind = "BinaryOperation"
    /\ expr.operator \in {"Divide", "Modulo"}
    /\ OperandValue(expr.left, variables).tag \in {"INTEGER32", "INTEGER64"}
    /\ OperandValue(expr.right, variables) =
           [tag |-> OperandValue(expr.left, variables).tag, v |-> 0]

\* C11: a VariableDeclaration or an Assignment whose value expression is the
\* division or the modulo of an integer by zero yields no value and leaves
\* the environment as it was (a new name stays unbound, a bound name keeps
\* its value); the statement does not end the statement list it is in.
C11_DivisionByZeroBindsNothing ==
    \A i \in Events("bound") :
        DividesByZero(Trace[i].expr, Trace[i].before.variables) =>
            /\ Trace[i].value = NoneV
            /\ Trace[i].after = Trace[i].before
            /\ ~Trace[i].returning

\* `let d = a / 0` on an unbound d and `a = a % 0` on a bound a were
\* executed, and statements after them were executed too.
C11_Witness ==
    /\ \E i \in Events("bound") :
           /\ DividesByZero(Trace[i].expr, Trace[i].before.variables)
           /\ Trace[i].kind = "VariableDeclaration"
           /\ Trace[i].expr.operator = "Divide"
           /\ ~Has(Trace[i].before.variables, Trace[i].name)
           /\ \E j \in Events("stmt") : j > i /\ Trace[j].call = Trace[i].call
    /\ \E i \in Events("bound") :
           /\ DividesByZero(Trace[i].expr, Trace[i].before.variables)
           /\ Trace[i].kind = "Assignment"
           /\ Trace[i].expr.operator = "Modulo"
           /\ Has(Trace[i].before.variables, Trace[i].name)
           /\ \E j \in Events("bound") :
                  j > i /\ Trace[j].call = Trace[i].call /\ IsSome(Trace[j].value)

ParameterNames(entered) == {entered.params[k].name : k \in DOMAIN entered.params}

\* C13: the body of a called function begins with every variable bound in
\* the calling environment at the instant of the call, with the caller's
\* value, except that a name that is a parameter holds the argument.
C13_CallerBindingsVisible ==
    \A i \in Events("enter") :
        Trace[i].kind = "function" =>
            /\ \A name \in DOMAIN Trace[i].caller \ ParameterNames(Trace[i]) :
                   /\ Has(Trace[i].variables, name)
                   /\ Trace[i].variables[name] = Trace[i].caller[name]
            /\ \A k \in DOMAIN Trace[i].params :
                   (\A l \in DOMAIN Trace[i].params :
                        l > k => Trace[i].params[l].name # Trace[i].params[k].name)
                   => Trace[i].variables[Trace[i].params[k].name] = Trace[i].args[k]

\* A function was called from the body of another and read a local and a
\* parameter of its caller, neither bound when it was declared; the
\* parameter shadowed a binding of the top level, which is back afterwards.
C13_Witness ==
    /\ \E i \in Events("enter") :
           /\ Trace[i].kind = "function" /\ Trace[i].name = "outer"
           /\ Has(Trace[i].caller, "p")
           /\ Trace[i].caller["p"] # Trace[i].variables["p"]
    /\ \E i \in Events("enter") :
           /\ Trace[i].kind = "function" /\ Trace[i].name = "inner"
           /\ Trace[i].call > 1
           /\ Trace[i].variables["loc"] = INTEGER32(2)
           /\ Trace[i].variables["p"] = INTEGER32(5)
           /\ \E j \in Events("exit") :
                  /\ j > i /\ Trace[j].call = Trace[i].call
                  /\ Trace[j].value = INTEGER32(7)
    /\ Has(runtime.environment.variables, "v")
    /\ runtime.environment.variables["v"] = INTEGER32(7)
    /\ runtime.environment.variables["p"] = INTEGER32(10)

\* The events of a call that change its environment.
ChangesEnvironment(i) ==
    \/ Trace[i].e \in {"bound", "iter", "member_assigned"}
    \/ Trace[i].e = "stmt" /\ Trace[i].kind = "ClassMeta"

\* Event j is a binding or a loop iteration of the call of event i and no
\* event of that call between the two changes the environment.
NextBinding(i, j) ==
    /\ i < j
    /\ Trace[j].e \in {"bound", "iter"}
    /\ Trace[j].call = Trace[i].call
    /\ \A k \in DOMAIN Trace :
           i < k /\ k < j /\ Trace[k].call = Trace[i].call => ~ChangesEnvironment(k)

\* C14: a declaration, an assignment or the binding of a loop variable,
\* wherever it stands (in a block, in a branch of a conditional, in a loop
\* body or outside), binds the name in the environment of the call, and the
\* next binding of the call and the end of the input find the environment
\* as the binding left it: no block, branch or loop body takes a name or a
\* value back at its end.
C14_NoBlockScope ==
    /\ \A i \in Events("bound") :
           IsSome(Trace[i].value) =>
               /\ Has(Trace[i].after.variables, Trace[i].name)
               /\ Trace[i].after.variables[Trace[i].name] = Trace[i].value
    /\ \A i \in Events("bound") \cup Events("iter") :
           /\ \A j \in DOMAIN Trace : NextBinding(i, j) => Trace[j].before = Trace[i].after
           /\ (Trace[i].call = 0 /\ ~Dead(runtime)
                  /\ \A k \in DOMAIN Trace :
                         k > i /\ Trace[k].call = 0 => ~ChangesEnvironment(k))
              => runtime.environment = Trace[i].after

\* Names were bound in a block, in a conditional, in a while-loop and in a
\* for-loop, each read by the statements that follow, and all are bound
\* when the input is over.
C14_Witness ==
    /\ \A kind \in {"Block", "Conditional", "WhileLoop", "ForLoop"} :
           \E i \in Events("stmt") :
               /\ Trace[i].kind = kind /\ Trace[i].call = 0
               /\ \E j \in Events("bound") : j > i
    /\ \A name \in {"y", "t", "fv", "i", "s"} : Has(runtime.environment.variables, name)
    /\ runtime.environment.variables["y"] = INTEGER32(2)
    /\ runtime.environment.variables["t"] = INTEGER32(3)
    /\ runtime.environment.variables["fv"] = INTEGER32(4)
    /\ runtime.environment.variables["s"] = INTEGER32(5)

\* C15: the body of a user function or of a method begins only when the
\* number of arguments is the number of parameters other than `self`; a
\* call that fails on the number executes nothing (what comes next is the
\* answer of the call expression) and yields no value.
C15_ArityMismatchYieldsNothing ==
    /\ \A i \in Events("enter") : Len(Trace[i].args) = Len(Trace[i].params)
    /\ \A i \in Events("arity") :
           i < Len(Trace) =>
               /\ Trace[i + 1].e \in {"resolved", "MethodCall", "construct"}
               /\ Trace[i + 1].e = "resolved" =>
                      Trace[i + 1].name = Trace[i].name /\ Trace[i + 1].value = NoneV
               /\ Trace[i + 1].e = "MethodCall" =>
                      Trace[i + 1].method = Trace[i].name /\ Trace[i + 1].value = NoneV

\* A user function and a method were each called with too few arguments,
\* and the call expression yielded no value.
C15_Witness ==
    /\ \E i \in Events("arity") :
           /\ Trace[i].kind = "function"
           /\ Trace[i + 1].e = "resolved" /\ Trace[i + 1].value = NoneV
    /\ \E i \in Events("arity") :
           /\ Trace[i].kind = "method"
           /\ Trace[i + 1].e = "MethodCall" /\ Trace[i + 1].value = NoneV

\* C16: the returning flag is set only by a Return statement.  A declaration
\* or an assignment leaves it unset, whether its value expression yields a
\* value or fails; the body of a call ends with the flag set only if a
\* Return executed in it; and an input that executed something leaves the
\* flag set only if a Return executed at top level.
C16_ReturningOnlyByReturn ==
    /\ \A i \in Events("bound") : ~Trace[i].returning
    /\ \A i \in Events("exit") : Trace[i].returned => Returned(i)
    /\ runtime.returning /\ Trace # <<>> =>
           \E i \in Events("returned") : Trace[i].call = 0

\* Five declarations failed in a row (mismatched operand types, division
\* by zero, an unbound name, a built-in that fails, a wrong number of
\* arguments); the declaration after them bound its name and the Return
\* after that set the flag.
C16_Witness ==
    /\ \A name \in {"m1", "m2", "m3", "m4", "m5"} :
           \E i \in Events("bound") :
               /\ Trace[i].name = name /\ Trace[i].call = 0
               /\ Trace[i].value = NoneV
               /\ \E j \in Events("stmt") : j > i /\ Trace[j].call = 0
    /\ \E i \in Events("arity") : Trace[i].name = "z"
    /\ \E i \in Events("bound") : Trace[i].name = "ok" /\ Trace[i].value = INTEGER32(1)
    /\ \E i \in Events("returned") : Trace[i].call = 0 /\ Trace[i].value = INTEGER32(1)
    /\ runtime.returning

\* The node of `left <op> right`.
Node(op, left, right) ==
    [kind |-> op.kind, left |-> left, operator |-> op.operator, right |-> right]

\* The tree of `a <first> b <second> c` when operators bind by level and
\* operators of one level fold to the left.
ByPrecedence(first, second) ==
    IF second.level > first.level
    THEN Node(first, Variable("a"), Node(second, Variable("b"), Variable("c")))
    ELSE Node(second, Node(first, Variable("a"), Variable("b")), Variable("c"))

\* C17: for every two binary operators, `let r = a <first> b <second> c`
\* parses to the declaration of r whose value is the tree by precedence
\* (`* / %` over `+ -` over the comparisons over `and` over `or`) and left
\* association; among them `a + b * c` is a + (b * c), `a * b + c` is
\* (a * b) + c and `a - b - c` is (a - b) - c.  `a == b and c == d` parses
\* to (a == b) and (c == d).
C17_PrecedenceAndAssociativity ==
    parsed.done =>
        /\ \A first, second \in BinaryOperators :
               content = ExpressionContent(first, second) =>
                   parsed.statements =
                       <<VariableDeclaration("r", "STRING", ByPrecedence(first, second))>>
        /\ content = TwoComparisonsContent =>
               parsed.statements =
                   <<VariableDeclaration("r", "STRING",
                         LogicalOperation(
                             ComparisonOperation(Variable("a"), "Equal", Variable("b")),
                             "And",
                             ComparisonOperation(Variable("c"), "Equal", Variable("d"))))>>

\* `let r = a + b * c` was parsed, to a + (b * c).
C17_Witness ==
    /\ parsed.done
    /\ content = <<"l", "e", "t", " ", "r", " ", "=", " ", "a", " ", "+", " ", "b", " ", "*",
                   " ", "c">>
    /\ parsed.statements[1].value =
           BinaryOperation(Variable("a"), "Add",
                           BinaryOperation(Variable("b"), "Multiply", Variable("c")))

\* C18: every type name of the language lexes to the one TYPE token of its
\* type, and a variable declaration, a parameter and a class attribute
\* annotated with it parse, with that type.
C18_TypeNamesLexAndParse ==
    parsed.done =>
        \A type \in SurfaceTypes :
            /\ content = DeclarationContent(type) =>
                   /\ parsed.tokens[4] = TYPE(type.data_type)
                   /\ Len(parsed.statements) = 1
                   /\ parsed.statements[1].kind = "VariableDeclaration"
                   /\ parsed.statements[1].data_type = type.data_type
            /\ content = ParameterContent(type) =>
                   /\ parsed.tokens[6] = TYPE(type.data_type)
                   /\ Len(parsed.statements) = 1
                   /\ parsed.statements[1].kind = "FunctionDeclaration"
                   /\ parsed.statements[1].params = <<FunctionParameter("p", type.data_type)>>
            /\ content = AttributeContent(type) =>
                   /\ parsed.tokens[8] = TYPE(type.data_type)
                   /\ Len(parsed.statements) = 1
                   /\ parsed.statements[1].kind = "ClassMeta"
                   /\ parsed.statements[1].fields["v"] = ClassAttribute("v", type.data_type)

ComparisonOperators ==
    {"Equal", "NotEqual", "Less", "Greater", "LessEqual", "GreaterEqual"}

\* Operands of every type a program can hold; the strings are listed in
\* string order.
OrderedStrings == <<"", "a", "ab", "b">>

ComparedValues ==
    {INTEGER32(n) : n \in {-1, 0, 2, I32Max, I32Min}}
        \cup {STRING_(OrderedStrings[k]) : k \in DOMAIN OrderedStrings}
        \cup {FLOAT32(0), FLOAT64(0), FLOAT64(1), BOOLEAN_(TRUE), BOOLEAN_(FALSE),
              LIST(<<>>), LIST(<<INTEGER32(1)>>)}

\* The place of a value in the order of its type.
Rank(value) ==
    IF value.tag = "STRING"
    THEN CHOOSE k \in DOMAIN OrderedStrings : OrderedStrings[k] = value.v
    ELSE value.v

\* The natural comparison of two values of one ordered type.
Natural(operator, left, right) ==
    CASE operator = "Equal" -> Rank(left) = Rank(right)
      [] operator = "NotEqual" -> Rank(left) # Rank(right)
      [] operator = "Less" -> Rank(left) < Rank(right)
      [] operator = "Greater" -> Rank(left) > Rank(right)
      [] operator = "LessEqual" -> Rank(left) <= Rank(right)
      [] operator = "GreaterEqual" -> Rank(left) >= Rank(right)

\* What the comparison of two literals yields in the current Runtime.
Compared(left, operator, right) ==
    evaluate_expression(runtime, ComparisonOperation(Value(left), operator, Value(right))).val

\* C19: for two operands of the same numeric type or two strings, each of
\* the six comparison operators yields the boolean of the natural
\* comparison of the two values, strings in string order.
C19_NaturalComparison ==
    ~Dead(runtime) =>
        \A left, right \in ComparedValues :
            left.tag = right.tag /\ left.tag \in Numeric \cup {"STRING"} =>
                \A operator \in ComparisonOperators :
                    Compared(left, operator, right) =
                        BOOLEAN_(Natural(operator, left, right))

\* The comparison of two values of different types by the statement of the
\* language: false for `==`, no value for the five others.
C20_MismatchedNoValue ==
    ~Dead(runtime) =>
        \A left, right \in ComparedValues :
            left.tag # right.tag =>
                \A operator \in ComparisonOperators :
                    Compared(left, operator, right) =
                        IF operator = "Equal" THEN BOOLEAN_(FALSE) ELSE NoneV

\* C20: when the two operands of a comparison have different types, `==`
\* yields false, `!=` yields true, and `<`, `>`, `<=`, `>=` yield no value;
\* so it is for the literals compared in any Runtime and for every
\* declaration a program executed whose value is such a comparison.
C20_MismatchedTags ==
    /\ ~Dead(runtime) =>
           \A left, right \in ComparedValues :
               left.tag # right.tag =>
                   \A operator \in ComparisonOperators :
                       Compared(left, operator, right) =
                           CASE operator = "Equal" -> BOOLEAN_(FALSE)
                             [] operator = "NotEqual" -> BOOLEAN_(TRUE)
                             [] OTHER -> NoneV
    /\ \A i \in Events("bound") :
           LET expr == Trace[i].expr
           IN  (/\ expr.kind = "ComparisonOperation"
                /\ IsSome(OperandValue(expr.left, Trace[i].before.variables))
                /\ IsSome(OperandValue(expr.right, Trace[i].before.variables))
                /\ OperandValue(expr.left, Trace[i].before.variables).tag
                       # OperandValue(expr.right, Trace[i].before.variables).tag)
               => Trace[i].value =
                      CASE expr.operator = "Equal" -> BOOLEAN_(FALSE)
                        [] expr.operator = "NotEqual" -> BOOLEAN_(TRUE)
                        [] OTHER -> NoneV

\* `1 == "a"`, `1 != "a"` and `1 < "a"` were declared values: d1 is false,
\* d2 is true and d3 is not bound.
C20_Witness ==
    /\ \E i \in Events("bound") :
           /\ Trace[i].name = "d3" /\ Trace[i].expr.kind = "ComparisonOperation"
           /\ Trace[i].value = NoneV
    /\ Has(runtime.environment.variables, "d1")
    /\ Has(runtime.environment.variables, "d2")
    /\ runtime.environment.variables["d1"] = BOOLEAN_(FALSE)
    /\ runtime.environment.variables["d2"] = BOOLEAN_(TRUE)
    /\ ~Has(runtime.environment.variables, "d3")

\* Values a condition can have: every type, zero and non-zero, empty and
\* non-empty.
ConditionValues ==
    {INTEGER32(n) : n \in {-1, 0, 2}}
        \cup {INTEGER64(0), INTEGER64(EpochSeconds), FLOAT32(0), FLOAT64(0),
              STRING_(""), STRING_("a"), LIST(<<>>), LIST(<<INTEGER32(0)>>),
              BOOLEAN_(TRUE), BOOLEAN_(FALSE),
              CLASSINSTANCE("K", EmptyMap),
              CLASSINSTANCE("Box", [n \in {"v"} |-> INTEGER32(1)])}

\* The rule of the language for a condition.
CountsAsTrue(value) ==
    CASE value.tag = "BOOLEAN" -> value.v = TRUE
      [] value.tag \in {"INTEGER32", "INTEGER64"} -> value.v # 0
      [] value.tag = "STRING" -> value.v # ""
      [] value.tag = "LIST" -> Len(value.v) > 0
      [] OTHER -> FALSE

Declares(name) == <<VariableDeclaration(name, "STRING", Value(INTEGER32(0)))>>

\* The variables of the current Runtime after `if (value) { let then_ran = 0 }
\* else { let else_ran = 0 }`.
AfterConditional(value) ==
    execute_statement(runtime,
        Conditional(Value(value), Declares("then_ran"), SomeBranch(Declares("else_ran")))
    ).rt.environment.variables

\* The variables of the current Runtime, where condition_v is `value`, after
\* `while (condition_v) { let body_ran = 0  let condition_v = 0 }`.
AfterWhileLoop(value) ==
    execute_statement(
        [runtime EXCEPT !.environment = set_variable(@, "condition_v", value)],
        WhileLoop(Variable("condition_v"), Declares("body_ran") \o Declares("condition_v"))
    ).rt.environment.variables

\* C21: Conditional and WhileLoop decide alike: a boolean counts as its
\* value, an integer as non-zero, a string or a list as non-empty, every
\* other value a program can hold (a class instance, the float 0.0) as false.
\* The then-branch and the loop body run exactly when the condition counts as
\* true, the else-branch exactly when it does not.
C21_Truthiness ==
    (~Dead(runtime) /\ ~runtime.returning) =>
        \A value \in ConditionValues :
            /\ Has(AfterConditional(value), "then_ran") <=> CountsAsTrue(value)
            /\ Has(AfterConditional(value), "else_ran") <=> ~CountsAsTrue(value)
            /\ Has(AfterWhileLoop(value), "body_ran") <=> CountsAsTrue(value)

\* The program decided on an instance, an empty string, a list of one item
\* and the integer 0: the else-branches of `if (k)` and `if ("")` and the
\* then-branch of `if ([0])` ran, neither loop body did.
C21_Witness ==
    LET variables == runtime.environment.variables
    IN  /\ Has(variables, "k") /\ variables["k"].tag = "CLASSINSTANCE"
        /\ Has(variables, "e1") /\ Has(variables, "e2") /\ Has(variables, "t3")
        /\ ~Has(variables, "t1") /\ ~Has(variables, "t2")
        /\ ~Has(variables, "w1") /\ ~Has(variables, "w2")
        /\ Cardinality({i \in Events("stmt") : Trace[i].kind = "WhileLoop"}) = 2

\* The tokens of the first n characters of the content.
TokensOfPrefix(n) == process_content(SubSeq(content, 1, n))

\* The tokens with the last one, a `!`, `<` or `>`, made the compound
\* token, or else with a `=` token appended.
WithEquals(tokens) ==
    LET last == IF Len(tokens) = 0 THEN "EOF" ELSE tokens[Len(tokens)].t
        compound == CASE last = "NOT" -> Token("NOT_EQUALS")
                      [] last = "LESS" -> Token("LESS_EQUALS")
                      [] last = "GREATER" -> Token("GREATER_EQUALS")
                      [] OTHER -> Token("EQUALS")
    IN  IF compound = Token("EQUALS") THEN tokens \o <<compound>>
        ELSE [tokens EXCEPT ![Len(tokens)] = compound]

\* Character i of the content begins a token: it is not the second
\* character of `==` or `!=`.
BeginsToken(i) == i = 1 \/ content[i - 1] \notin {"=", "!"}

\* C22: a `=` that no `=` follows replaces a `!`, `<` or `>` token emitted
\* just before it by `!=`, `<=` or `>=` and is a `=` token otherwise; `==`
\* is one token and `!=` is one token; so `a == b`, `a != b`, `a <= b` and
\* `a >= b` are three tokens each.
C22_EqualsTokens ==
    (parsed.done /\ content \in EqualsContents) =>
        /\ parsed.tokens = TokensOfPrefix(Len(content))
        /\ \A i \in DOMAIN content :
               LET followed == i < Len(content) /\ content[i + 1] = "="
               IN  /\ (content[i] = "=" /\ BeginsToken(i) /\ ~followed) =>
                          TokensOfPrefix(i) = WithEquals(TokensOfPrefix(i - 1))
                   /\ (content[i] = "=" /\ BeginsToken(i) /\ followed) =>
                          TokensOfPrefix(i + 1) =
                              TokensOfPrefix(i - 1) \o <<Token("EQUALS_EQUALS")>>
                   /\ (content[i] = "!" /\ BeginsToken(i) /\ followed) =>
                          TokensOfPrefix(i + 1) =
                              TokensOfPrefix(i - 1) \o <<Token("NOT_EQUALS")>>
        /\ \A spaced \in {<<>>, <<" ">>} :
               \A op \in {[chars |-> <<"=", "=">>, token |-> "EQUALS_EQUALS"],
                          [chars |-> <<"!", "=">>, token |-> "NOT_EQUALS"],
                          [chars |-> <<"<", "=">>, token |-> "LESS_EQUALS"],
                          [chars |-> <<">", "=">>, token |-> "GREATER_EQUALS"]} :
                   content = <<"a">> \o spaced \o op.chars \o spaced \o <<"b">> =>
                       parsed.tokens = <<IDENTIFIER("a"), Token(op.token), IDENTIFIER("b")>>

\* `a < = b` was lexed: the `=` after the blank joined the `<` before it.
C22_Witness ==
    /\ parsed.done
    /\ content = <<"a", " ", "<", " ", "=", " ", "b">>
    /\ parsed.tokens = <<IDENTIFIER("a"), Token("LESS_EQUALS"), IDENTIFIER("b")>>

\* The cursor after one iteration of the loops of `parse` and of
\* parse_block_body begun at token `position` of the tokens of the content.
AfterIteration(position) ==
    parse_iteration(<<>>, [tokens |-> process_content(content), position |-> position]).c

\* C23: wherever in a token list an iteration of the driver loop or of the
\* block-body loop begins, it ends at least one token further, whether the
\* statement production succeeded or returned no statement; so the loops
\* end, and every text that was lexed has been parsed.
C23_IterationAdvances ==
    /\ \A position \in 0..(Len(process_content(content)) - 1) :
           /\ AfterIteration(position).position > position
           /\ AfterIteration(position).position <= Len(process_content(content))
    /\ parsed.done => parsed.statements = parse(parsed.tokens)

\* `let let x = 1` was parsed: the declaration failed having consumed both
\* `let`, the driver skipped `x`, and no statement came of the text.
C23_Witness ==
    /\ parsed.done
    /\ content = <<"l", "e", "t", " ", "l", "e", "t", " ", "x", " ", "=", " ", "1">>
    /\ ~ASTParser("parse_statement", <<TokenCursor_new(parsed.tokens)>>).ok
    /\ AfterIteration(0).position = 3
    /\ parsed.statements = <<>>

\* What `self.v = e` and `self.m()` become as statements.
AssignmentOfV == Assignment("v", Variable("e"))

CallOfM == ExpressionStatement(FunctionCall("m", <<>>))

\* C24: a statement that begins with `self` is no MemberAssignment and no
\* MethodCall on self: the dispatcher returns no statement at `self` and
\* leaves the cursor there, the loop skips `self`, then `.`, and the rest is
\* a statement of its own: `self.v = e` is the Assignment of v and
\* `self.m()` the FunctionCall of m, alone and in a method body.
C24_SelfStatementSkipped ==
    (parsed.done /\ content \in SelfContents) =>
        /\ \A position \in 0..(Len(parsed.tokens) - 1) :
               parsed.tokens[position + 1].t = "SELF" =>
                   LET c == [tokens |-> parsed.tokens, position |-> position]
                   IN  /\ ~ASTParser("parse_statement", <<c>>).ok
                       /\ ASTParser("parse_statement", <<c>>).c = c
                       /\ AfterIteration(position).position = position + 1
                       /\ parsed.tokens[position + 2].t = "DOT" =>
                              AfterIteration(position + 1).position = position + 2
        /\ content = SelfAssignmentContent => parsed.statements = <<AssignmentOfV>>
        /\ content = SelfCallContent => parsed.statements = <<CallOfM>>
        /\ content = SelfMethodContent =>
               /\ Len(parsed.statements) = 1
               /\ parsed.statements[1].kind = "ClassMeta"
               /\ parsed.statements[1].fields["s"].body = <<AssignmentOfV, CallOfM>>

\* The class was parsed: the body of its method `s` is the Assignment of v
\* and the call of m where the text has `self.v=e` and `self.m()`.
C24_Witness ==
    /\ parsed.done
    /\ content = SelfMethodContent
    /\ Len(parsed.statements) = 1
    /\ parsed.statements[1].fields["s"].body[1] = AssignmentOfV
    /\ parsed.statements[1].fields["s"].body[2] = CallOfM

\* C25: the returning flag a Return set at top level is never cleared.  In
\* the input of that Return nothing is executed after it, and every later
\* input leaves the Runtime as it is: no statement executes, no binding, no
\* class and no function changes, nothing is written.
C25_TopLevelReturnIsFinal ==
    /\ [](runtime.returning /\ Trace # <<>> =>
             /\ Trace[Len(Trace)].e = "returned"
             /\ Trace[Len(Trace)].call = 0)
    /\ [][runtime.returning =>
             /\ runtime'.returning
             /\ runtime'.return_value = runtime.return_value
             /\ runtime'.environment = runtime.environment
             /\ runtime'.functions = runtime.functions
             /\ runtime'.trace = <<>>
             /\ runtime'.stdout = ""]_vars

\* Two inputs were fed to the Runtime after the one that returned at top
\* level: the flag is set, the last input executed nothing, and the
\* declaration after the Return never ran.
C25_Witness ==
    /\ runtime.returning
    /\ inputs_read = MaxInputs
    /\ Trace = <<>>
    /\ runtime.return_value = INTEGER32(1)
    /\ Has(runtime.environment.variables, "ok")
    /\ ~Has(runtime.environment.variables, "late")

\* The Return events of the call that event i ends.
ReturnsOf(i) == {j \in Events("returned") : j < i /\ Trace[j].call = Trace[i].call}

\* C26: a call of a user function with the right number of arguments that
\* comes to its end yields a value: the integer 0 when the body executed no
\* Return, and the integer 0 when the value expression of the Return it
\* executed failed to evaluate; a declaration whose value is such a call
\* binds its name.
C26_CallAlwaysYieldsValue ==
    /\ \A i \in Events("exit") :
           Trace[i].kind = "function" =>
               /\ IsSome(Trace[i].value)
               /\ ReturnsOf(i) = {} => Trace[i].value = INTEGER32(0)
               /\ \A j \in ReturnsOf(i) :
                      /\ ~IsSome(Trace[j].evaluated) => Trace[i].value = INTEGER32(0)
                      /\ IsSome(Trace[j].evaluated) => Trace[i].value = Trace[j].evaluated
    /\ \A i \in Events("bound") :
           (/\ Trace[i].expr.kind = "FunctionCall"
            /\ Trace[i - 1].e = "resolved" /\ Trace[i - 1].via = "function"
            /\ Trace[i - 2].e = "exit" /\ Trace[i - 2].name = Trace[i].expr.name)
           => /\ IsSome(Trace[i].value)
              /\ Has(Trace[i].after.variables, Trace[i].name)
              /\ Trace[i].after.variables[Trace[i].name] = Trace[i].value

\* `let x = nr()` and `let y = rz()` ran: nr executed no Return, the
\* Return of rz divided by zero, and x and y are both the integer 0.
C26_Witness ==
    /\ \E i \in Events("exit") : Trace[i].name = "nr" /\ ReturnsOf(i) = {}
    /\ \E i \in Events("exit") :
           /\ Trace[i].name = "rz"
           /\ \E j \in ReturnsOf(i) : ~IsSome(Trace[j].evaluated)
    /\ Has(runtime.environment.variables, "x")
    /\ Has(runtime.environment.variables, "y")
    /\ runtime.environment.variables["x"] = INTEGER32(0)
    /\ runtime.environment.variables["y"] = INTEGER32(0)

\* Operands of the 32-bit width: the ends of the range and values about 0.
DividedValues == {I32Min, I32Min + 1, -7, -1, 1, 2, I32Max}

\* What `left <operator> right` on 32-bit literals yields in the current
\* Runtime, and the Runtime it leaves.
Divided(left, operator, right) ==
    evaluate_expression(runtime,
        BinaryOperation(Value(INTEGER32(left)), operator, Value(INTEGER32(right))))

\* C27: for integer operands of one width and a divisor that is not zero,
\* Divide and Modulo yield a value of that width for every pair of operand
\* values, the minimum integer divided by -1 included, and no operand pair
\* aborts the interpreter.
C27_DivisionNeverAborts ==
    /\ ~Dead(runtime) =>
           \A left, right \in DividedValues :
               \A operator \in {"Divide", "Modulo"} :
                   /\ Divided(left, operator, right).val.tag = "INTEGER32"
                   /\ ~Divided(left, operator, right).rt.panicked
    /\ \A i \in Events("abort") : Trace[i].operator \notin {"Divide", "Modulo"}

\* C28: the lexer emits no float literal.  Every point outside a string
\* literal ends the run before it and is a DOT token, so `1.5` is the
\* integer 1, DOT, the integer 5, and every literal token carries an
\* integer, a boolean or a string.
C28_NoFloatLiteral ==
    parsed.done =>
        /\ \A i \in DOMAIN parsed.tokens :
               parsed.tokens[i].t = "VALUE" =>
                   parsed.tokens[i].v.tag \in {"INTEGER32", "INTEGER64", "BOOLEAN", "STRING"}
        /\ (\A i \in DOMAIN content : content[i] \notin {"\"", "'"}) =>
               Cardinality({i \in DOMAIN parsed.tokens : parsed.tokens[i].t = "DOT"})
                   = Cardinality({i \in DOMAIN content : content[i] = "."})
        /\ content = <<"1", ".", "5">> =>
               parsed.tokens = <<VALUE(INTEGER32(1)), Token("DOT"), VALUE(INTEGER32(5))>>

\* `let x = 1.5` was lexed: the tokens end with the integer 1, DOT and the
\* integer 5.
C28_Witness ==
    /\ parsed.done
    /\ content = <<"l", "e", "t", " ", "x", " ", "=", " ", "1", ".", "5">>
    /\ parsed.tokens = <<Token("LET"), IDENTIFIER("x"), Token("EQUALS"),
                         VALUE(INTEGER32(1)), Token("DOT"), VALUE(INTEGER32(5))>>

\* C29: a call saves and restores no function registry.  The functions
\* known when a call of a function or a method is over are those known at
\* the end of its body, a FunctionDeclaration executed in the body
\* included, which replaces an earlier function of its name, while the
\* variables of the body are gone; and between two inputs no function is
\* ever forgotten.
C29_RegistryNotRestored ==
    /\ [](\A i \in Events("exit") :
             /\ Trace[i].functions = Trace[i].declared
             /\ Trace[i].after.variables = Trace[i].before.variables)
    /\ [][DOMAIN runtime.functions \subseteq DOMAIN runtime'.functions]_vars

\* mk declared w anew in its body and a method declared w2 in its body:
\* after the calls w() is 2 where it was 1 before, w2() is 3, and the
\* variable mk declared is not bound.
C29_Witness ==
    LET variables == runtime.environment.variables
    IN  /\ \A name \in {"a", "c", "d"} : Has(variables, name)
        /\ variables["a"] = INTEGER32(1)
        /\ variables["c"] = INTEGER32(2)
        /\ variables["d"] = INTEGER32(3)
        /\ ~Has(variables, "loc")
        /\ Has(runtime.functions, "w") /\ Has(runtime.functions, "w2")
        /\ runtime.functions["w"].body = <<Return(Value(INTEGER32(2)))>>

\* The bound of a loop that is a literal or a bound variable, as the
\* variables `variables` give it; 0 for any other expression.
BoundIn(expr, variables) ==
    IF IsSome(OperandValue(expr, variables)) THEN OperandValue(expr, variables).v ELSE 0

\* The loops whose values stay far from the ends of the integer range.
SmallRange(range) ==
    \A part \in {range.start, range.end, range.step} : part \in -1000..1000

\* How many of start, start + step, start + 2 * step, .. come before end.
IterationsOf(range) ==
    Cardinality({k \in 0..MaxIterations :
        LET value == range.start + k * range.step
        IN  \/ range.step > 0 /\ value < range.end
            \/ range.step < 0 /\ value > range.end})

\* C30: the values of a ForLoop are fixed by start, end and step as they
\* were evaluated before the first iteration.  Iteration number k binds the
\* loop variable to start + k * step whatever the body assigned to the loop
\* variable or to the variables of the bounds, and the loop makes as many
\* iterations as those first values give.
C30_ForLoopSequenceFixed ==
    /\ \A i \in Events("iter") :
           LET it == Trace[i]
           IN  SmallRange(it.range) =>
                   /\ it.current = it.range.start + it.index * it.range.step
                   /\ it.bound.v = it.current
                   /\ Get(it.after.variables, it.variable).v = it.current
                   /\ it.index = 0 =>
                          \A part \in {"start", "end", "step"} :
                              IsSome(OperandValue(it.bounds[part], it.before.variables)) =>
                                  BoundIn(it.bounds[part], it.before.variables)
                                      = it.range[part]
    /\ \A i \in Events("for_end") :
           SmallRange(Trace[i].range) => Trace[i].iterations = IterationsOf(Trace[i].range)

\* `for i in ./[0, n, 1] { i = 10  n = 0  k = k + 1 }` with n = 3 ran: when
\* the second iteration began i was 10 and n was 0, yet it bound i to 1,
\* and the loop made three iterations.
C30_Witness ==
    /\ \E i \in Events("iter") :
           /\ Trace[i].index = 1 /\ Trace[i].current = 1
           /\ Trace[i].variable = "i"
           /\ Get(Trace[i].before.variables, "i") = INTEGER32(10)
           /\ BoundIn(Trace[i].bounds.end, Trace[i].before.variables) = 0
           /\ Trace[i].range.end = 3
    /\ \E i \in Events("for_end") : Trace[i].iterations = 3
    /\ Has(runtime.environment.variables, "k")
    /\ runtime.environment.variables["k"] = INTEGER32(3)
    /\ runtime.environment.variables["i"] = INTEGER32(10)

====
